---- MODULE Spec2Model ----
(***************************************************************************)
(* rustyrogue: the tile model, the map (field of view, obelisk curses),    *)
(* the turn loop of the game and the BSP dungeon generator.                *)
(*                                                                         *)
(* Coordinates are 0-based as in the Rust code; the grid is a sequence of  *)
(* rows (Vec<Vec<Tile>>), so the tile of Point{x, y} is tiles[y+1][x+1].   *)
(***************************************************************************)
EXTENDS Integers, Sequences, FiniteSets, TLC

VARIABLES
    tiles,            \* Map.tiles: the grid, a sequence of rows of tiles
    visible_tiles,    \* Map.visible_tiles: HashSet<Point>
    player,           \* Game.player: the Player struct
    player_position,  \* Game.player_position
    previous_tile,    \* Game.previous_tile: the tile the player stands on
    turns,            \* Game.turns
    log_messages,     \* Game.log_messages: FIFO of at most 5 messages
    pc,               \* position inside the running handler
    call,             \* the last Map call made by an outside caller
    ncalls,           \* how many Map calls the outside caller has made
    result,           \* return value of the last Map call made by a caller
    panicked,         \* TRUE once a panic has aborted the program
    args,             \* MapGenerator: width, height, the arguments of generate
                      \* and whether the build checks integer overflow
    bsp_root,         \* MapGenerator.bsp_root: the nodes of the BSP tree
    rooms,            \* MapGenerator.rooms: Vec<Room>
    todo,             \* the nodes the running phase has yet to visit
    walk,             \* the locals of the running drunken_walk_corridor
    workers           \* the parallel workers of populate_all_rooms and
                      \* place_all_room_doors, one per room: the call the
                      \* worker is at and its local variables

vars == <<tiles, visible_tiles, player, player_position, previous_tile,
          turns, log_messages, pc, call, ncalls, result, panicked,
          args, bsp_root, rooms, todo, walk, workers>>

\* the state of the dungeon generator
genvars == <<args, bsp_root, rooms, todo, walk, workers>>

\* the state of the game and of the callers of the map
gamevars == <<visible_tiles, player, player_position, previous_tile, turns,
              log_messages, call, ncalls, result>>

----------------------------------------------------------------------------
(* Bounds of the model.                                                    *)

\* player actions are accepted while turns < MaxTurns
MaxTurns == 4
\* number of Map calls an outside caller makes in SpecMap
MaxCalls == 2
\* coordinates an outside caller passes run from 0 to the grid size + OutOfRange - 1
OutOfRange == 1

----------------------------------------------------------------------------
(* tile.rs: the Tile enum, one record shape per variant.                   *)

TileArchway(locked) == [kind |-> "Archway", locked |-> locked]
TileStairs(visible, up) == [kind |-> "Stairs", visible |-> visible, up |-> up]
TileWall(visible) == [kind |-> "Wall", visible |-> visible]
TileFloor(visible, cursed) == [kind |-> "Floor", visible |-> visible, cursed |-> cursed]
TilePlayer(is_dead, is_cursed) ==
    [kind |-> "Player", is_dead |-> is_dead, is_cursed |-> is_cursed]
TileDoor(visible, open) == [kind |-> "Door", visible |-> visible, open |-> open]
TileSecret(visible, rarity) == [kind |-> "Secret", visible |-> visible, rarity |-> rarity]
TileSecretFloor(visible) == [kind |-> "SecretFloor", visible |-> visible]
TileObelisk(visible, curse, fov, damage_hp, reduce_fov_radius) ==
    [kind |-> "Obelisk", visible |-> visible, curse |-> curse, fov |-> fov,
     damage_hp |-> damage_hp, reduce_fov_radius |-> reduce_fov_radius]
TilePit(visible) == [kind |-> "Pit", visible |-> visible]
TileWither(visible, hp, damage, fov) ==
    [kind |-> "Wither", visible |-> visible, hp |-> hp, damage |-> damage, fov |-> fov]
TileBat(visible, hp, damage, fov) ==
    [kind |-> "Bat", visible |-> visible, hp |-> hp, damage |-> damage, fov |-> fov]
TileBrute(visible, hp, damage, fov) ==
    [kind |-> "Brute", visible |-> visible, hp |-> hp, damage |-> damage, fov |-> fov]
TileColumn(visible) == [kind |-> "Column", visible |-> visible]
TileEmpty == [kind |-> "Empty"]

\* the variants that carry a `visible` field
VisibleKinds == {"Stairs", "Wall", "Floor", "Door", "Secret", "SecretFloor",
                 "Obelisk", "Pit", "Wither", "Bat", "Brute", "Column"}

\* Tile::is_walkable
TileIsWalkable(tile) ==
    CASE tile.kind \in {"Wall", "Secret", "Obelisk"} -> FALSE
      [] tile.kind = "Archway" -> ~tile.locked
      [] tile.kind = "Door" -> tile.open
      [] OTHER -> TRUE

\* the rarities Tile::from_char draws for '?': 10^(0..=3)
SecretRarities == {1, 10, 100, 1000}

\* Tile::from_char; the rarity of a secret is drawn at random, `rarity` is that draw
FromChar(c, rarity) ==
    CASE c = "n" -> TileArchway(TRUE)   \* the glyph of the archway is not ASCII
      [] c = ">" -> TileStairs(FALSE, FALSE)
      [] c = "<" -> TileStairs(FALSE, TRUE)
      [] c = "#" -> TileWall(FALSE)
      [] c = "." -> TileFloor(FALSE, FALSE)
      [] c = "@" -> TilePlayer(FALSE, FALSE)
      [] c = "+" -> TileDoor(FALSE, TRUE)
      [] c = "/" -> TileDoor(FALSE, FALSE)
      [] c = "V" -> TilePit(FALSE)
      [] c = "?" -> TileSecret(FALSE, rarity)
      [] c = "_" -> TileSecretFloor(FALSE)
      [] c = "|" -> TileObelisk(FALSE, TRUE, 6, 1, 3)
      [] c = "W" -> TileWither(FALSE, 3, 2, 8)
      [] c = "B" -> TileBat(FALSE, 1, 1, 6)
      [] c = "U" -> TileBrute(FALSE, 20, 10, 4)
      [] OTHER -> TileEmpty

----------------------------------------------------------------------------
(* map/types.rs and map/mod.rs: the grid and its point queries.            *)

Point(x, y) == [x |-> x, y |-> y]

\* Map::width: tiles[0].len()
Width(t) == Len(t[1])

\* Map::height: tiles.len()
Height(t) == Len(t)

\* every point of the grid
GridPoints(t) == {Point(x, y) : x \in 0 .. Width(t) - 1, y \in 0 .. Height(t) - 1}

\* the bounds check Rust makes on tiles[position.y][position.x]: outside it panics
IndexPanics(t, position) ==
    ~(position.y < Height(t) /\ position.x < Len(t[position.y + 1]))

\* Map::get_tile: tiles[position.y][position.x]
GetTile(t, position) == t[position.y + 1][position.x + 1]

\* Map::set_tile: tiles[position.y][position.x] = tile
SetTile(t, position, tile) == [t EXCEPT ![position.y + 1][position.x + 1] = tile]

\* Map::is_walkable
IsWalkable(t, position) == TileIsWalkable(GetTile(t, position))

\* Map::is_deadly
IsDeadly(t, point) == GetTile(t, point).kind = "Pit"

\* Map::is_interactable
IsInteractable(t, point) ==
    LET tile == GetTile(t, point)
    IN  tile.kind = "Door" \/ (tile.kind = "Secret" /\ tile.visible)

\* an interact_tile that opens a door and never closes one
InteractTileOpensOnly(t, point) ==
    LET tile == GetTile(t, point)
    IN  IF tile.kind = "Door"
        THEN SetTile(t, point, TileDoor(tile.visible, TRUE))
        ELSE t

\* Map::interact_tile
InteractTile(t, point) ==
    LET tile == GetTile(t, point)
    IN  IF tile.kind = "Door"
        THEN SetTile(t, point, TileDoor(tile.visible, ~tile.open))
        ELSE t

\* Option::None
None == [none |-> TRUE]

\* no MapGenerator has been constructed
NoGenerator ==
    /\ args = None
    /\ bsp_root = None
    /\ rooms = << >>
    /\ todo = << >>
    /\ walk = None
    /\ workers = << >>

\* Map::find_player: the first Player tile in row-major order, or None
FindPlayer(t) ==
    LET found == {p \in GridPoints(t) : GetTile(t, p).kind = "Player"}
    IN  IF found = {} THEN None
        ELSE CHOOSE p \in found :
                \A q \in found : p.y < q.y \/ (p.y = q.y /\ p.x <= q.x)

----------------------------------------------------------------------------
(* map/mod.rs: line of sight, field of view.                               *)

Abs(n) == IF n < 0 THEN -n ELSE n

\* an is_opaque whose by-obelisk predicate takes every door, open or closed
IsOpaqueAnyDoor(t, point, by_obelisk, is_player_cursed) ==
    LET tile == GetTile(t, point)
    IN  IF by_obelisk
        THEN tile.kind \in {"Wall", "Column", "Pit", "Door"}
        ELSE IF is_player_cursed
        THEN \/ tile.kind \in {"Wall", "Column", "Secret", "Wither", "Bat", "Brute"}
             \/ (tile.kind = "Door" /\ ~tile.open)
        ELSE \/ tile.kind \in {"Wall", "Column", "Secret", "Wither", "Bat", "Brute"}
             \/ (tile.kind = "Floor" /\ tile.cursed)
             \/ (tile.kind = "Door" /\ ~tile.open)

\* an is_opaque for which a wall does not block the sight of the player
IsOpaqueGlassWalls(t, point, by_obelisk, is_player_cursed) ==
    LET tile == GetTile(t, point)
    IN  IF by_obelisk
        THEN \/ tile.kind \in {"Wall", "Column", "Pit"}
             \/ (tile.kind = "Door" /\ ~tile.open)
        ELSE IF is_player_cursed
        THEN \/ tile.kind \in {"Column", "Secret", "Wither", "Bat", "Brute"}
             \/ (tile.kind = "Door" /\ ~tile.open)
        ELSE \/ tile.kind \in {"Column", "Secret", "Wither", "Bat", "Brute"}
             \/ (tile.kind = "Floor" /\ tile.cursed)
             \/ (tile.kind = "Door" /\ ~tile.open)

\* Map::is_opaque: the three opacity predicates
IsOpaque(t, point, by_obelisk, is_player_cursed) ==
    LET tile == GetTile(t, point)
    IN  IF by_obelisk
        THEN \/ tile.kind \in {"Wall", "Column", "Pit"}
             \/ (tile.kind = "Door" /\ ~tile.open)
        ELSE IF is_player_cursed
        THEN \/ tile.kind \in {"Wall", "Column", "Secret", "Wither", "Bat", "Brute"}
             \/ (tile.kind = "Door" /\ ~tile.open)
        ELSE \/ tile.kind \in {"Wall", "Column", "Secret", "Wither", "Bat", "Brute"}
             \/ (tile.kind = "Floor" /\ tile.cursed)
             \/ (tile.kind = "Door" /\ ~tile.open)

\* the loop of Map::has_line_of_sight, one iteration per unfolding
RECURSIVE LineOfSightLoop(_, _, _, _, _, _, _, _, _, _, _, _)
LineOfSightLoop(t, x0, y0, x1, y1, dx, dy, sx, sy, err, by_obelisk, is_player_cursed) ==
    IF x0 = x1 /\ y0 = y1 THEN TRUE
    ELSE IF IsOpaque(t, Point(x0, y0), by_obelisk, is_player_cursed) THEN FALSE
    ELSE LET e2 == 2 * err
             stepx == e2 >= dy
             err1 == IF stepx THEN err + dy ELSE err
             nx == IF stepx THEN x0 + sx ELSE x0
             stepy == e2 <= dx
             err2 == IF stepy THEN err1 + dx ELSE err1
             ny == IF stepy THEN y0 + sy ELSE y0
         IN  LineOfSightLoop(t, nx, ny, x1, y1, dx, dy, sx, sy, err2,
                             by_obelisk, is_player_cursed)

\* Map::has_line_of_sight
HasLineOfSight(t, x0, y0, x1, y1, by_obelisk, is_player_cursed) ==
    LET dx == Abs(x1 - x0)
        dy == -Abs(y1 - y0)
        sx == IF x0 < x1 THEN 1 ELSE -1
        sy == IF y0 < y1 THEN 1 ELSE -1
    IN  LineOfSightLoop(t, x0, y0, x1, y1, dx, dy, sx, sy, dx + dy,
                        by_obelisk, is_player_cursed)

\* Map::update_tile_visibility, on the tile it rewrites: the variants it lists get
\* the flag, a Player loses is_cursed, every other variant is left as it is
UpdateTileVisibility(tile, visible) ==
    CASE tile.kind \in {"Wall", "Pit", "Floor", "Secret", "SecretFloor", "Door",
                        "Obelisk", "Wither", "Bat", "Brute"} ->
              [tile EXCEPT !.visible = visible]
      [] tile.kind = "Player" -> TilePlayer(tile.is_dead, FALSE)
      [] OTHER -> tile

\* update_tile_visibility(point, visible) for every point of `points`; each call
\* rewrites the tile of its own point only
UpdateVisibilityOf(t, points, visible) ==
    [row \in 1 .. Height(t) |->
        [col \in 1 .. Len(t[row]) |->
            IF Point(col - 1, row - 1) \in points
            THEN UpdateTileVisibility(t[row][col], visible)
            ELSE t[row][col]]]

\* Map::clear_visible_tiles: drains visible_tiles and clears the flag of each point
ClearVisibleTiles(t, visible) == UpdateVisibilityOf(t, visible, FALSE)

\* the points Map::update_fov inserts into visible_tiles: the offsets of the square
\* of side 2r+1 that pass the squared-distance test, fall inside the grid and have
\* line of sight.  The flags update_tile_visibility writes while the loop runs are
\* read by no opacity predicate, so the set is the same for every order of the loop.
FovPoints(t, pov, fov_radius, is_player_cursed) ==
    LET r == fov_radius
        radius_squared == r * r
    IN  {Point(pov.x + dx, pov.y + dy) : <<dx, dy>> \in
            {d \in (-r .. r) \X (-r .. r) :
                /\ d[1] * d[1] + d[2] * d[2] <= radius_squared
                /\ pov.x + d[1] \in 0 .. Width(t) - 1
                /\ pov.y + d[2] \in 0 .. Height(t) - 1
                /\ HasLineOfSight(t, pov.x, pov.y, pov.x + d[1], pov.y + d[2],
                                  FALSE, is_player_cursed)}}

\* is_player_cursed as Map::update_fov reads it: after clear_visible_tiles
FovObserverCursed(t, pov) ==
    LET tile == GetTile(t, pov)
    IN  tile.kind = "Player" /\ tile.is_cursed

\* Map::update_fov: the new grid and the new visible set
UpdateFov(t, visible, pov, fov_radius) ==
    LET cleared == ClearVisibleTiles(t, visible)
        is_player_cursed == FovObserverCursed(cleared, pov)
        seen == FovPoints(cleared, pov, fov_radius, is_player_cursed)
    IN  [tiles |-> UpdateVisibilityOf(cleared, seen, TRUE), visible_tiles |-> seen]

----------------------------------------------------------------------------
(* map/mod.rs: obelisk curses.                                             *)

\* a clearing pass that leaves every cursed flag as it was
KeepCursedFlags(t) == t

\* Map::clear_curse_from_all_tiles
ClearCurseFromAllTiles(t) ==
    [row \in 1 .. Height(t) |->
        [col \in 1 .. Len(t[row]) |->
            LET tile == t[row][col]
            IN  IF tile.kind = "Floor" /\ tile.cursed
                THEN TileFloor(tile.visible, FALSE)
                ELSE IF tile.kind = "Player" /\ tile.is_cursed
                THEN TilePlayer(tile.is_dead, FALSE)
                ELSE tile]]

\* Map::calculate_curse_area: the points it inserts for one obelisk
CalculateCurseArea(t, center, radius) ==
    {Point(center.x + dx, center.y + dy) : <<dx, dy>> \in
        {d \in (-radius .. radius) \X (-radius .. radius) :
            /\ d[1] * d[1] + d[2] * d[2] <= radius * radius
            /\ center.x + d[1] \in 0 .. Width(t) - 1
            /\ center.y + d[2] \in 0 .. Height(t) - 1
            /\ HasLineOfSight(t, center.x + d[1], center.y + d[2],
                              center.x, center.y, TRUE, FALSE)}}

\* the obelisks with curse: true
CursingObelisks(t) ==
    {p \in GridPoints(t) : GetTile(t, p).kind = "Obelisk" /\ GetTile(t, p).curse}

\* an apply_obelisk_curses that works out the curse areas before it clears the old
\* curses, with the sight of the player, which a cursed floor blocks
ApplyObeliskCursesBeforeClearing(t) ==
    LET cleared == ClearCurseFromAllTiles(t)
        Area(center, radius) ==
            {q \in GridPoints(t) :
                /\ (q.x - center.x) * (q.x - center.x)
                      + (q.y - center.y) * (q.y - center.y) <= radius * radius
                /\ HasLineOfSight(t, q.x, q.y, center.x, center.y, FALSE, FALSE)}
        cursed_tiles == UNION {Area(p, GetTile(t, p).fov) : p \in CursingObelisks(t)}
    IN  [row \in 1 .. Height(t) |->
            [col \in 1 .. Len(t[row]) |->
                LET tile == cleared[row][col]
                IN  IF Point(col - 1, row - 1) \notin cursed_tiles THEN tile
                    ELSE IF tile.kind = "Floor" THEN TileFloor(tile.visible, TRUE)
                    ELSE IF tile.kind = "Player" THEN TilePlayer(tile.is_dead, TRUE)
                    ELSE tile]]

\* Map::apply_obelisk_curses
ApplyObeliskCurses(t) ==
    LET cleared == ClearCurseFromAllTiles(t)
        cursed_tiles == UNION {CalculateCurseArea(cleared, p, GetTile(cleared, p).fov) :
                                    p \in CursingObelisks(cleared)}
    IN  [row \in 1 .. Height(t) |->
            [col \in 1 .. Len(t[row]) |->
                LET tile == cleared[row][col]
                IN  IF Point(col - 1, row - 1) \notin cursed_tiles THEN tile
                    ELSE IF tile.kind = "Floor" THEN TileFloor(tile.visible, TRUE)
                    ELSE IF tile.kind = "Player" THEN TilePlayer(tile.is_dead, TRUE)
                    ELSE tile]]

\* a get_obelisk_cursing_tile that returns the obelisk nearest to pov
GetObeliskCursingTileNearest(t, pov) ==
    LET found == {p \in CursingObelisks(t) :
                    HasLineOfSight(t, p.x, p.y, pov.x, pov.y, TRUE, FALSE)}
        Far(p) == (p.x - pov.x) * (p.x - pov.x) + (p.y - pov.y) * (p.y - pov.y)
    IN  IF found = {} THEN None
        ELSE GetTile(t, CHOOSE p \in found : \A q \in found : Far(p) <= Far(q))

\* Map::get_obelisk_cursing_tile: the first obelisk of the row-major scan with
\* curse: true and line of sight from the obelisk to pov
GetObeliskCursingTile(t, pov) ==
    LET found == {p \in CursingObelisks(t) :
                    HasLineOfSight(t, p.x, p.y, pov.x, pov.y, TRUE, FALSE)}
    IN  IF found = {} THEN None
        ELSE GetTile(t, CHOOSE p \in found :
                \A q \in found : p.y < q.y \/ (p.y = q.y /\ p.x <= q.x))

----------------------------------------------------------------------------
(* map/mod.rs: Map::load.                                                  *)

\* the map files of the model: rows of glyphs, one string of length 1 per glyph
TutorialMap ==
    << <<"#", "#", "#", "#", "#", "#", "#", "#">>,
       <<"#", "@", ".", "#", ".", ".", "|", "#">>,
       <<"#", ".", ".", "/", ".", ".", ".", "#">>,
       <<"#", "V", ">", "#", ".", "B", ".", "#">>,
       <<"#", "#", "#", "#", "#", "#", "#", "#">> >>

CursedStartMap ==
    << <<"#", "#", "#", "#", "#", "#", "#">>,
       <<"#", "|", ".", ".", ".", "?", "#">>,
       <<"#", ".", ".", "@", ".", ".", "#">>,
       <<"#", "#", "#", "#", "#", "#", "#">> >>

MapFiles == {TutorialMap, CursedStartMap}

\* the points of a map file that hold the glyph of a secret
SecretPoints(rows) ==
    {Point(x, y) : <<x, y>> \in
        {c \in (0 .. Len(rows[1]) - 1) \X (0 .. Len(rows) - 1) :
            rows[c[2] + 1][c[1] + 1] = "?"}}

\* Map::load: every line of the file mapped through Tile::from_char; rarities
\* gives the rarity drawn for each secret
LoadMap(rows, rarities) ==
    [row \in 1 .. Len(rows) |->
        [col \in 1 .. Len(rows[row]) |->
            FromChar(rows[row][col],
                     IF rows[row][col] = "?" THEN rarities[Point(col - 1, row - 1)]
                     ELSE 0)]]

----------------------------------------------------------------------------
(* player.rs: the Player struct.                                           *)

\* Player::fov_radius, the sight radius of a player who is not cursed
PlayerFovRadius == 4

\* Player::new
PlayerNew ==
    [level |-> 1, exp |-> 0, max_hp |-> 20, current_hp |-> 20,
     strength |-> 5, defense |-> 2, fov_radius |-> PlayerFovRadius]

\* Player::xp_for_next_level
XpForNextLevel(p) == p.level * 100

\* Player::level_up
LevelUp(p) ==
    [p EXCEPT !.level = p.level + 1,
              !.max_hp = p.max_hp + 5,
              !.current_hp = p.max_hp + 5,
              !.strength = p.strength + 1,
              !.defense = p.defense + 1]

\* Player::gain_exp
GainExp(p, amount) ==
    LET q == [p EXCEPT !.exp = p.exp + amount]
    IN  IF q.exp >= XpForNextLevel(q) THEN LevelUp(q) ELSE q

\* Player::take_damage: hit points never go below zero
TakeDamage(p, amount) ==
    [p EXCEPT !.current_hp = IF amount >= p.current_hp THEN 0 ELSE p.current_hp - amount]

\* Player::is_dead
IsDead(p) == p.current_hp = 0

----------------------------------------------------------------------------
(* game/mod.rs: the Game struct and its turn loop.                         *)

\* DIRECTIONS, in the order Game::interact scans them
DIRECTIONS ==
    << <<-1, -1>>, <<0, -1>>, <<1, -1>>, <<-1, 0>>, <<1, 0>>, <<-1, 1>>, <<0, 1>>, <<1, 1>> >>

\* the capacity of the game log
LogCapacity == 5

Message(message, arg, message_type) ==
    [message |-> message, arg |-> arg, message_type |-> message_type]

\* Game::log_message: drop the oldest message when the log is full, then push
LogMessage(log, message) ==
    Append(IF Len(log) = LogCapacity THEN Tail(log) ELSE log, message)

\* Game::log_info_message
LogInfoMessage(log, text) == LogMessage(log, Message(text, 0, "Info"))

\* Game::log_damage_message
LogDamageMessage(log, text, arg) == LogMessage(log, Message(text, arg, "Damage"))

\* Game::is_player_cursed
IsPlayerCursed(t, position) ==
    LET tile == GetTile(t, position)
    IN  tile.kind = "Player" /\ tile.is_cursed

\* Game::get_player_fov_radius
GetPlayerFovRadius(t, position, p) ==
    IF IsPlayerCursed(t, position)
    THEN LET cursing == GetObeliskCursingTile(t, position)
         IN  IF cursing # None THEN cursing.reduce_fov_radius ELSE p.fov_radius
    ELSE p.fov_radius

\* Game::is_game_over
IsGameOver == IsDead(player)

Clamp(n, lo, hi) == IF n < lo THEN lo ELSE IF n > hi THEN hi ELSE n

\* the moves the key handlers of the user interfaces pass to Game::move_player
Moves == {<<-1, 0>>, <<1, 0>>, <<0, -1>>, <<0, 1>>}

\* Game::new on one of the map files, up to its call of tick: the map is loaded,
\* the player located
InitGameOn(files) ==
    /\ \E rows \in files :
         \E rarities \in [SecretPoints(rows) -> SecretRarities] :
            /\ tiles = LoadMap(rows, rarities)
            /\ player_position =
                 (IF FindPlayer(LoadMap(rows, rarities)) = None THEN Point(0, 0)
                  ELSE FindPlayer(LoadMap(rows, rarities)))
    /\ visible_tiles = {}
    /\ player = PlayerNew
    /\ previous_tile = TileFloor(FALSE, FALSE)
    /\ turns = 0
    /\ log_messages = << >>
    /\ pc = "tick"
    /\ call = None
    /\ ncalls = 0
    /\ result = None
    /\ panicked = FALSE
    /\ NoGenerator

InitGame == InitGameOn(MapFiles)

\* Game::tick, entry: the turn counter
Tick ==
    /\ pc = "tick"
    /\ turns' = turns + 1
    /\ pc' = "apply_obelisk_curses"
    /\ UNCHANGED <<tiles, visible_tiles, player, player_position, previous_tile,
                   log_messages, call, ncalls, result, panicked>>
    /\ UNCHANGED genvars

\* Game::tick, first call: self.map.apply_obelisk_curses()
TickApplyObeliskCurses ==
    /\ pc = "apply_obelisk_curses"
    /\ tiles' = ApplyObeliskCurses(tiles)
    /\ pc' = "update_fov"
    /\ UNCHANGED <<visible_tiles, player, player_position, previous_tile, turns,
                   log_messages, call, ncalls, result, panicked>>
    /\ UNCHANGED genvars

\* Game::tick, second call: Game::update_fov
TickUpdateFov ==
    /\ pc = "update_fov"
    /\ LET fov_radius == GetPlayerFovRadius(tiles, player_position, player)
           fov == UpdateFov(tiles, visible_tiles, player_position, fov_radius)
       IN  /\ tiles' = fov.tiles
           /\ visible_tiles' = fov.visible_tiles
    /\ pc' = "check_effects"
    /\ UNCHANGED <<player, player_position, previous_tile, turns, log_messages,
                   call, ncalls, result, panicked>>
    /\ UNCHANGED genvars

\* Game::tick, third call: Game::check_effects, with Game::apply_curse_effects
TickCheckEffects ==
    /\ pc = "check_effects"
    /\ IF IsPlayerCursed(tiles, player_position)
       THEN LET cursing == GetObeliskCursingTile(tiles, player_position)
            IN  IF cursing # None /\ cursing.visible
                THEN /\ log_messages' = LogDamageMessage(log_messages,
                            "You take {} damage from the Obelisk curse", cursing.damage_hp)
                     /\ player' = TakeDamage(player, cursing.damage_hp)
                ELSE UNCHANGED <<log_messages, player>>
       ELSE /\ player' = GainExp(player, 1)
            /\ UNCHANGED log_messages
    /\ pc' = "idle"
    /\ UNCHANGED <<tiles, visible_tiles, player_position, previous_tile, turns,
                   call, ncalls, result, panicked>>
    /\ UNCHANGED genvars

\* a move that runs the tick whether or not the destination is walkable
MovePlayerAlwaysTicks(dx, dy) ==
    /\ pc = "idle"
    /\ ~IsGameOver
    /\ turns < MaxTurns
    /\ LET search_position ==
             Point(Clamp(player_position.x + dx, 0, Width(tiles) - 1),
                   Clamp(player_position.y + dy, 0, Height(tiles) - 1))
       IN  IF IsWalkable(tiles, search_position)
           THEN LET restored == SetTile(tiles, player_position, previous_tile)
                IN  /\ previous_tile' = GetTile(restored, search_position)
                    /\ player_position' = search_position
                    /\ tiles' = SetTile(restored, search_position, TilePlayer(FALSE, FALSE))
                    /\ IF IsDeadly(restored, search_position)
                       THEN /\ log_messages' = LogDamageMessage(log_messages, "You died!", 0)
                            /\ player' = TakeDamage(player, player.current_hp)
                       ELSE UNCHANGED <<log_messages, player>>
           ELSE /\ log_messages' = LogInfoMessage(log_messages, "You can't walk there.")
                /\ UNCHANGED <<tiles, player, player_position, previous_tile>>
    /\ pc' = "tick"
    /\ UNCHANGED <<visible_tiles, turns, call, ncalls, result, panicked>>
    /\ UNCHANGED genvars

\* a walk_to_tile that does not put previous_tile back where the player stood
MovePlayerLeavesTrail(dx, dy, max_turns) ==
    /\ pc = "idle"
    /\ ~IsGameOver
    /\ turns < max_turns
    /\ LET search_position ==
             Point(Clamp(player_position.x + dx, 0, Width(tiles) - 1),
                   Clamp(player_position.y + dy, 0, Height(tiles) - 1))
       IN  IF IsWalkable(tiles, search_position)
           THEN /\ previous_tile' = GetTile(tiles, search_position)
                /\ player_position' = search_position
                /\ tiles' = SetTile(tiles, search_position, TilePlayer(FALSE, FALSE))
                /\ IF IsDeadly(tiles, search_position)
                   THEN /\ log_messages' = LogDamageMessage(log_messages, "You died!", 0)
                        /\ player' = TakeDamage(player, player.current_hp)
                   ELSE UNCHANGED <<log_messages, player>>
                /\ pc' = "tick"
           ELSE /\ log_messages' = LogInfoMessage(log_messages, "You can't walk there.")
                /\ UNCHANGED <<tiles, player, player_position, previous_tile, pc>>
    /\ UNCHANGED <<visible_tiles, turns, call, ncalls, result, panicked>>
    /\ UNCHANGED genvars

\* Game::move_player with Game::walk_to_tile, up to the call of tick; the key is
\* accepted while the game is not over and fewer than max_turns turns have run
MovePlayerUpTo(dx, dy, max_turns) ==
    /\ pc = "idle"
    /\ ~IsGameOver
    /\ turns < max_turns
    /\ LET search_position ==
             Point(Clamp(player_position.x + dx, 0, Width(tiles) - 1),
                   Clamp(player_position.y + dy, 0, Height(tiles) - 1))
       IN  IF IsWalkable(tiles, search_position)
           THEN LET restored == SetTile(tiles, player_position, previous_tile)
                    is_destination_deadly == IsDeadly(restored, search_position)
                IN  /\ previous_tile' = GetTile(restored, search_position)
                    /\ player_position' = search_position
                    /\ tiles' = SetTile(restored, search_position, TilePlayer(FALSE, FALSE))
                    /\ IF is_destination_deadly
                       THEN /\ log_messages' = LogDamageMessage(log_messages, "You died!", 0)
                            /\ player' = TakeDamage(player, player.current_hp)
                       ELSE UNCHANGED <<log_messages, player>>
                    /\ pc' = "tick"
           ELSE /\ log_messages' = LogInfoMessage(log_messages, "You can't walk there.")
                /\ UNCHANGED <<tiles, player, player_position, previous_tile, pc>>
    /\ UNCHANGED <<visible_tiles, turns, call, ncalls, result, panicked>>
    /\ UNCHANGED genvars

\* Game::move_player in a game of at most MaxTurns turns
MovePlayer(dx, dy) == MovePlayerUpTo(dx, dy, MaxTurns)

\* the clamped neighbour Game::interact looks at for the i-th direction
InteractPosition(t, position, i) ==
    Point(Clamp(position.x + DIRECTIONS[i][1], 0, Width(t) - 1),
          Clamp(position.y + DIRECTIONS[i][2], 0, Height(t) - 1))

\* Game::interact, up to the call of tick: the first interactable neighbour
Interact ==
    /\ pc = "idle"
    /\ ~IsGameOver
    /\ turns < MaxTurns
    /\ LET hits == {i \in 1 .. Len(DIRECTIONS) :
                      IsInteractable(tiles, InteractPosition(tiles, player_position, i))}
       IN  IF hits # {}
           THEN LET first == CHOOSE i \in hits : \A j \in hits : i <= j
                IN  /\ tiles' = InteractTile(tiles,
                                    InteractPosition(tiles, player_position, first))
                    /\ pc' = "tick"
                    /\ UNCHANGED log_messages
           ELSE /\ log_messages' = LogInfoMessage(log_messages,
                                        "No interactable tiles found nearby.")
                /\ UNCHANGED <<tiles, pc>>
    /\ UNCHANGED <<visible_tiles, player, player_position, previous_tile, turns,
                   call, ncalls, result, panicked>>
    /\ UNCHANGED genvars

Next ==
    \/ Tick
    \/ TickApplyObeliskCurses
    \/ TickUpdateFov
    \/ TickCheckEffects
    \/ \E d \in Moves : MovePlayer(d[1], d[2])
    \/ Interact

Spec == InitGame /\ [][Next]_vars

----------------------------------------------------------------------------
(* A long walk: a game long enough for the player to reach the next level, *)
(* on a map with two obelisks and a pit.                                   *)

\* the turns of the long walk: the player reaches level 2 with 100 exp
WalkTurns == 100

\* an obelisk at the end of the first row, one at the start of the second, a pit
\* below the player
ObeliskPitMap ==
    << <<".", "@", ".", ".", ".", ".", ".", ".", "|">>,
       <<"|", "V", "#", "#", "#", "#", "#", "#", "#">> >>

InitWalk == InitGameOn({ObeliskPitMap})

NextWalk ==
    \/ Tick
    \/ TickApplyObeliskCurses
    \/ TickUpdateFov
    \/ TickCheckEffects
    \/ \E d \in Moves : MovePlayerUpTo(d[1], d[2], WalkTurns)

SpecWalk == InitWalk /\ [][NextWalk]_vars

----------------------------------------------------------------------------
(* The Map as an outside caller uses it: point queries and mutations with  *)
(* points of the caller's choosing.                                        *)

\* the grid the caller's Map is built from
CallerMap ==
    << <<".", "#", "/">>,
       <<"@", "|", "V">> >>

\* the points a caller passes: every point of the grid and the points next to it
CallerPoints(t) ==
    {Point(x, y) : x \in 0 .. Width(t) + OutOfRange - 1,
                   y \in 0 .. Height(t) + OutOfRange - 1}

\* the tiles a caller passes to set_tile
CallerTiles == {TileFloor(FALSE, FALSE), TileWall(FALSE), TileEmpty}

\* Map::load, then Map is handed to the caller
InitMap ==
    /\ tiles = LoadMap(CallerMap, [p \in SecretPoints(CallerMap) |-> 1])
    /\ visible_tiles = {}
    /\ player = PlayerNew
    /\ player_position = Point(0, 1)
    /\ previous_tile = TileFloor(FALSE, FALSE)
    /\ turns = 0
    /\ log_messages = << >>
    /\ pc = "caller"
    /\ call = None
    /\ ncalls = 0
    /\ result = None
    /\ panicked = FALSE
    /\ NoGenerator

\* a caller's map.get_tile(position)
CallGetTile(position) ==
    /\ pc = "caller" /\ ~panicked /\ ncalls < MaxCalls
    /\ call' = [op |-> "get_tile", position |-> position]
    /\ ncalls' = ncalls + 1
    /\ IF IndexPanics(tiles, position)
       THEN panicked' = TRUE /\ result' = None
       ELSE panicked' = FALSE /\ result' = GetTile(tiles, position)
    /\ UNCHANGED <<tiles, visible_tiles, player, player_position, previous_tile,
                   turns, log_messages, pc>>
    /\ UNCHANGED genvars

\* a caller's map.set_tile(position, tile)
CallSetTile(position, tile) ==
    /\ pc = "caller" /\ ~panicked /\ ncalls < MaxCalls
    /\ call' = [op |-> "set_tile", position |-> position]
    /\ ncalls' = ncalls + 1
    /\ result' = None
    /\ IF IndexPanics(tiles, position)
       THEN panicked' = TRUE /\ UNCHANGED tiles
       ELSE panicked' = FALSE /\ tiles' = SetTile(tiles, position, tile)
    /\ UNCHANGED <<visible_tiles, player, player_position, previous_tile,
                   turns, log_messages, pc>>
    /\ UNCHANGED genvars

NextMap ==
    \/ \E position \in CallerPoints(tiles) : CallGetTile(position)
    \/ \E position \in CallerPoints(tiles), tile \in CallerTiles :
            CallSetTile(position, tile)

SpecMap == InitMap /\ [][NextMap]_vars

----------------------------------------------------------------------------
(* generator/room.rs: a room and the features Room::populate places.       *)
(* Every random choice is a nondeterministic one; an operator that can     *)
(* panic returns the set of its outcomes, [ok, tiles], ok = FALSE for a    *)
(* panic.                                                                  *)

\* a draw from a range of cells or from a list of kinds takes one of the first
\* MaxDraws values
MaxDraws == 1
\* Room::place_mobs draws 1..=3 mobs; at most MaxMobs of them here
MaxMobs == 1
\* the cell of a secret without a column next to it is drawn from the first
\* MaxSecretDraws columns and rows of the room
MaxSecretDraws == 2

Min(a, b) == IF a < b THEN a ELSE b

\* the first n values of lo..hi, hi excluded; none when it is empty
Draws(lo, hi, n) == lo .. Min(hi - 1, lo + n - 1)

\* the values drawn from gen_range(lo..hi), hi excluded; none when it is empty
RangeDraws(lo, hi) == Draws(lo, hi, MaxDraws)

\* Room::new
RoomNew(location, width, height) ==
    [location |-> location, width |-> width, height |-> height,
     room_type |-> "Normal"]

\* enum RoomType
RoomTypes == {"Normal", "Obelisk", "Secret"}

\* Room::center
Center(room) ==
    Point(room.location.x + room.width \div 2, room.location.y + room.height \div 2)

\* the cells a room writes: its floor and the walls from location to
\* location + width and location + height inclusive
RoomCells(room) ==
    {Point(x, y) : x \in room.location.x .. room.location.x + room.width,
                   y \in room.location.y .. room.location.y + room.height}

\* x < max_x && y < max_y
InGrid(t, x, y) == x >= 0 /\ x < Width(t) /\ y >= 0 /\ y < Height(t)

Ok(t) == [ok |-> TRUE, tiles |-> t]
Panic(t) == [ok |-> FALSE, tiles |-> t]

\* the outcomes of step F run after the outcomes S; a panic ends the run
Then(S, F(_)) == UNION {IF o.ok THEN F(o.tiles) ELSE {o} : o \in S}

\* tiles[y][x] = tile for every (x, y) of cells that is inside the grid
WriteCells(t, cells, tile) ==
    [row \in 1 .. Height(t) |->
        [col \in 1 .. Len(t[row]) |->
            IF Point(col - 1, row - 1) \in cells THEN tile ELSE t[row][col]]]

\* Room::fill_with_floor
FillWithFloor(t, room) ==
    WriteCells(t, {Point(x, y) :
                      x \in room.location.x .. room.location.x + room.width - 1,
                      y \in room.location.y .. room.location.y + room.height - 1},
               TileFloor(FALSE, FALSE))

\* Room::surround_with_walls
SurroundWithWalls(t, room) ==
    WriteCells(t, {p \in RoomCells(room) :
                      \/ p.y = room.location.y
                      \/ p.y = room.location.y + room.height
                      \/ p.x = room.location.x
                      \/ p.x = room.location.x + room.width},
               TileWall(FALSE))

\* Room::place_columns: a coin flip, then four unchecked writes
PlaceColumns(t, room) ==
    LET x1 == room.location.x + 2
        x2 == room.location.x + room.width - 2
        y1 == room.location.y + 2
        y2 == room.location.y + room.height - 2
        positions == {Point(x1, y1), Point(x2, y1), Point(x1, y2), Point(x2, y2)}
    IN  {Ok(t),
         IF \A p \in positions : InGrid(t, p.x, p.y)
         THEN Ok(WriteCells(t, positions, TileColumn(FALSE)))
         ELSE Panic(t)}

\* Room::find_room_entrances: the floor cells of the perimeter between two walls
FindRoomEntrances(t, room) ==
    LET left == room.location.x
        right == room.location.x + room.width
        top == room.location.y
        bottom == room.location.y + room.height
        IsFloor(x, y) == GetTile(t, Point(x, y)).kind = "Floor"
        IsWall(x, y) == GetTile(t, Point(x, y)).kind = "Wall"
        InRow(x, y) ==
            /\ InGrid(t, x, y) /\ IsFloor(x, y)
            /\ (x = 0 \/ IsWall(x - 1, y))
            /\ (x + 1 >= Width(t) \/ IsWall(x + 1, y))
        InColumn(x, y) ==
            /\ InGrid(t, x, y) /\ IsFloor(x, y)
            /\ (y = 0 \/ IsWall(x, y - 1))
            /\ (y + 1 >= Height(t) \/ IsWall(x, y + 1))
    IN  {p \in {Point(x, y) : x \in left .. right, y \in {top, bottom}} :
            InRow(p.x, p.y)}
        \cup
        {p \in {Point(x, y) : x \in {left, right}, y \in top .. bottom} :
            InColumn(p.x, p.y)}

\* Room::determine_room_type: chances in tenths of (obelisk, secret, normal)
RoomTypeChance(num_entrances, room_type) ==
    IF num_entrances = 1
    THEN (CASE room_type = "Obelisk" -> 7 [] room_type = "Secret" -> 2 [] OTHER -> 1)
    ELSE (CASE room_type = "Obelisk" -> 3 [] room_type = "Secret" -> 4 [] OTHER -> 3)

\* Room::determine_room_type: the types the random value can select
DetermineRoomType(t, room) ==
    {room_type \in RoomTypes :
        RoomTypeChance(Cardinality(FindRoomEntrances(t, room)), room_type) > 0}

\* Room::place_obelisk: an unchecked write at the center
PlaceObelisk(t, room) ==
    LET center == Center(room)
    IN  IF InGrid(t, center.x, center.y)
        THEN {Ok(SetTile(t, center, TileObelisk(FALSE, TRUE, 8, 1, 3)))}
        ELSE {Panic(t)}

\* the cells x_start..x_end, y_start..y_end that place_secret, place_mobs and
\* place_brute work on
InnerCells(room) ==
    {Point(x, y) : x \in room.location.x + 1 .. room.location.x + room.width - 2,
                   y \in room.location.y + 1 .. room.location.y + room.height - 2}

\* the cells a pair of gen_range(x_start..x_end), gen_range(y_start..y_end) draws
DrawnCells(room) ==
    {Point(x, y) :
        x \in RangeDraws(room.location.x + 1, room.location.x + room.width - 1),
        y \in RangeDraws(room.location.y + 1, room.location.y + room.height - 1)}

\* the cells place_secret draws when potential_positions is empty
SecretCells(room) ==
    {Point(x, y) :
        x \in Draws(room.location.x + 1, room.location.x + room.width - 1, MaxSecretDraws),
        y \in Draws(room.location.y + 1, room.location.y + room.height - 1, MaxSecretDraws)}

\* Room::place_secret, under the read lock: the scan for floor cells next to a
\* column; a cell of the scan outside the grid panics
PotentialPositions(t, room) ==
    LET inner == InnerCells(room)
        columns == {p \in inner : GetTile(t, p).kind = "Column"}
    IN  IF \E p \in inner : ~InGrid(t, p.x, p.y)
        THEN [ok |-> FALSE, positions |-> {}]
        ELSE [ok |-> TRUE,
              positions |-> {p \in inner :
                                /\ GetTile(t, p).kind = "Floor"
                                /\ \E c \in columns : Abs(c.x - p.x) + Abs(c.y - p.y) = 1}]

\* Room::place_secret, under the write lock: the rarity and the write, at one of
\* potential_positions or, without any, at a drawn cell
PlaceSecret(t, room, is_secret_room, potential_positions) ==
    LET rarity_values == <<1, 10, 100>>
        rarities == IF is_secret_room THEN {100, 1000}
                    ELSE {rarity_values[i] : i \in RangeDraws(1, Len(rarity_values) + 1)}
        positions == IF potential_positions # {} THEN potential_positions
                     ELSE SecretCells(room)
    IN  IF positions = {} THEN {Panic(t)}
        ELSE {IF InGrid(t, p.x, p.y) THEN Ok(SetTile(t, p, TileSecret(FALSE, rarity)))
              ELSE Panic(t) : p \in positions, rarity \in rarities}

\* the mob tiles of Room::place_mobs, in the order of mob_types
MobTiles ==
    <<TileWither(FALSE, 50, 10, 6), TileBat(FALSE, 20, 5, 8), TileBrute(FALSE, 80, 15, 4)>>

\* mob_types[rng.gen_range(0..mob_types.len())]
DrawnMobTiles == {MobTiles[i] : i \in RangeDraws(1, Len(MobTiles) + 1)}

\* the search for a free floor cell and the write of place_mobs and place_brute:
\* a drawn cell outside the grid panics, a drawn floor cell takes the mob, and
\* after eleven failed draws nothing is placed
PlaceMob(t, room, mob_tiles) ==
    LET drawn == DrawnCells(room)
    IN  IF drawn = {} THEN {Panic(t)}
        ELSE {Panic(t) : p \in {q \in drawn : ~InGrid(t, q.x, q.y)}}
             \cup {Ok(t) : p \in {q \in drawn :
                                    InGrid(t, q.x, q.y) /\ GetTile(t, q).kind # "Floor"}}
             \cup {Ok(SetTile(t, p, mob_tile)) :
                      p \in {q \in drawn :
                                InGrid(t, q.x, q.y) /\ GetTile(t, q).kind = "Floor"},
                      mob_tile \in mob_tiles}

\* Room::place_mobs: num_mobs mobs one after the other
RECURSIVE PlaceMobsLoop(_, _, _)
PlaceMobsLoop(S, room, num_mobs) ==
    IF num_mobs = 0 THEN S
    ELSE LET Mob(g) == PlaceMob(g, room, DrawnMobTiles)
         IN  PlaceMobsLoop(Then(S, Mob), room, num_mobs - 1)

\* Room::place_mobs
PlaceMobs(t, room) ==
    UNION {PlaceMobsLoop({Ok(t)}, room, num_mobs) : num_mobs \in 1 .. Min(3, MaxMobs)}

\* Room::place_brute
PlaceBrute(t, room) == PlaceMob(t, room, {TileBrute(FALSE, 20, 10, 4)})

\* Room::place_doors, under the write lock: each of the entrances found becomes a
\* closed door on a coin flip
PlaceDoors(t, entrances) ==
    {WriteCells(t, doors, TileDoor(FALSE, FALSE)) : doors \in SUBSET entrances}

\* Room::populate: the calls that can follow the call `at` in a room of room_type;
\* each rng.gen_bool decides whether the next placement is made or skipped
NextCalls(at, room_type) ==
    CASE at = "fill_with_floor" -> {"fill_with_floor_write"}
      [] at = "fill_with_floor_write" -> {"surround_with_walls"}
      [] at = "surround_with_walls" -> {"surround_with_walls_write"}
      [] at = "surround_with_walls_write" -> {"place_columns"}
      [] at = "place_columns" -> {"determine_room_type"}
      [] at = "determine_room_type" ->
            (CASE room_type = "Obelisk" -> {"place_obelisk"}
               [] room_type = "Secret" -> {"place_secret"}
               [] OTHER -> {"place_obelisk", "place_secret", "place_mobs", "place_doors"})
      [] at = "place_obelisk" ->
            IF room_type = "Obelisk" THEN {"place_doors"}
            ELSE {"place_secret", "place_mobs", "place_doors"}
      [] at = "place_secret" -> {"place_secret_write"}
      [] at = "place_secret_write" -> {"place_mobs", "place_doors"}
      [] at = "place_mobs" ->
            IF room_type = "Secret" THEN {"place_brute"} ELSE {"place_doors"}
      [] at = "place_brute" -> {"place_doors"}
      [] at = "place_doors" -> {"place_doors_write"}
      [] OTHER -> {"returned"}

----------------------------------------------------------------------------
(* generator/map.rs: MapGenerator. The nodes of the BSP tree are numbered  *)
(* as in a heap: the root is 1, the children of node id are 2 * id and     *)
(* 2 * id + 1. usize arithmetic that goes below zero panics in a build     *)
(* with overflow checks and wraps around to a huge value in a build        *)
(* without; args.overflow_checks tells which build runs.                   *)

\* max_depth of MapGenerator::build_bsp_tree
MaxDepth == 5
\* padding of MapGenerator::collect_rooms_in_node
Padding == 2

\* the (width, height) given to MapGenerator::new and the
\* (min_room_size, max_room_size) given to generate
GeneratorInputs ==
    {[width |-> 18, height |-> 9, min_room_size |-> 5, max_room_size |-> 5],
     [width |-> 8, height |-> 8, min_room_size |-> 5, max_room_size |-> 5],
     [width |-> 3, height |-> 3, min_room_size |-> 5, max_room_size |-> 5]}

\* the inputs of the runs that stop when the rooms have been created
BspInputs ==
    GeneratorInputs \cup
    {[width |-> 9, height |-> 6, min_room_size |-> 3, max_room_size |-> 3]}

\* vec![vec![Tile::Empty; width]; height], and MapGenerator::fill_with_empty
EmptyGrid(width, height) == [row \in 1 .. height |-> [col \in 1 .. width |-> TileEmpty]]

\* BSPNode::new
BSPNode(x, y, width, height) ==
    [x |-> x, y |-> y, width |-> width, height |-> height, room |-> None]

Left(id) == 2 * id
Right(id) == 2 * id + 1

\* current_depth of the call of split_node on node id
RECURSIVE Depth(_)
Depth(id) == IF id = 1 THEN 0 ELSE 1 + Depth(id \div 2)

\* BSPNode::is_leaf
IsLeaf(tree, id) == Left(id) \notin DOMAIN tree

\* the leaves under node id in the order collect_rooms_in_node visits them
RECURSIVE Leaves(_, _)
Leaves(tree, id) ==
    IF IsLeaf(tree, id) THEN <<id>>
    ELSE Leaves(tree, Left(id)) \o Leaves(tree, Right(id))

\* MapGenerator::get_room_in_subtree
RECURSIVE GetRoomInSubtree(_, _)
GetRoomInSubtree(tree, id) ==
    IF tree[id].room # None THEN tree[id].room
    ELSE IF IsLeaf(tree, id) THEN None
    ELSE LET left_room == GetRoomInSubtree(tree, Left(id))
         IN  IF left_room # None THEN left_room
             ELSE GetRoomInSubtree(tree, Right(id))

\* MapGenerator::connect_rooms_bsp: the nodes that get a corridor, in call order
RECURSIVE ConnectOrder(_, _)
ConnectOrder(tree, id) ==
    IF IsLeaf(tree, id) THEN << >>
    ELSE ConnectOrder(tree, Left(id)) \o ConnectOrder(tree, Right(id)) \o
         (IF /\ GetRoomInSubtree(tree, Left(id)) # None
             /\ GetRoomInSubtree(tree, Right(id)) # None
          THEN <<id>> ELSE << >>)

\* a carve_corridor that turns every cell around the point into a Wall
CarveCorridorOverFeatures(t, centers) ==
    LET ClampX(x) == Clamp(x, 0, Width(t) - 1)
        ClampY(y) == Clamp(y, 0, Height(t) - 1)
        floors == {Point(ClampX(c.x), ClampY(c.y)) : c \in centers}
        around == UNION {{Point(ClampX(c.x + dx), ClampY(c.y + dy)) :
                             dx \in -1 .. 1, dy \in -1 .. 1} : c \in centers}
    IN  [row \in 1 .. Height(t) |->
            [col \in 1 .. Len(t[row]) |->
                LET p == Point(col - 1, row - 1)
                IN  IF p \in floors THEN TileFloor(FALSE, FALSE)
                    ELSE IF p \in around THEN TileWall(FALSE)
                    ELSE t[row][col]]]

\* MapGenerator::carve_corridor at every point of centers, in any order: the
\* clamped point becomes Floor, an Empty cell around it becomes Wall
CarveCorridor(t, centers) ==
    LET ClampX(x) == Clamp(x, 0, Width(t) - 1)
        ClampY(y) == Clamp(y, 0, Height(t) - 1)
        floors == {Point(ClampX(c.x), ClampY(c.y)) : c \in centers}
        around == UNION {{Point(ClampX(c.x + dx), ClampY(c.y + dy)) :
                             dx \in -1 .. 1, dy \in -1 .. 1} : c \in centers}
    IN  [row \in 1 .. Height(t) |->
            [col \in 1 .. Len(t[row]) |->
                LET p == Point(col - 1, row - 1)
                IN  IF p \in floors THEN TileFloor(FALSE, FALSE)
                    ELSE IF p \in around /\ t[row][col] = TileEmpty THEN TileWall(FALSE)
                    ELSE t[row][col]]]

\* the values of a sequence
Elements(seq) == {seq[i] : i \in 1 .. Len(seq)}

\* MapGenerator::new on one of the inputs
InitGenerator(inputs) ==
    /\ \E input \in inputs, overflow_checks \in BOOLEAN :
          /\ args = [width |-> input.width, height |-> input.height,
                     min_room_size |-> input.min_room_size,
                     max_room_size |-> input.max_room_size,
                     overflow_checks |-> overflow_checks]
          /\ tiles = EmptyGrid(input.width, input.height)
    /\ bsp_root = None
    /\ rooms = << >>
    /\ todo = << >>
    /\ walk = None
    /\ workers = << >>
    /\ pc = "generate"
    /\ panicked = FALSE
    /\ visible_tiles = {}
    /\ player = PlayerNew
    /\ player_position = Point(0, 0)
    /\ previous_tile = TileFloor(FALSE, FALSE)
    /\ turns = 0
    /\ log_messages = << >>
    /\ call = None
    /\ ncalls = 0
    /\ result = None

InitGen == InitGenerator(GeneratorInputs)

InitBsp == InitGenerator(BspInputs)

\* an input whose leaves are too small for a room: without overflow checks it
\* yields rooms that reach into each other
SmallLeafInputs ==
    {[width |-> 10, height |-> 7, min_room_size |-> 3, max_room_size |-> 3]}

InitSmall == InitGenerator(SmallLeafInputs)

\* MapGenerator::generate, entry: fill_with_empty and the root of build_bsp_tree
BuildBspTree ==
    /\ pc = "generate"
    /\ tiles' = EmptyGrid(args.width, args.height)
    /\ bsp_root' = (1 :> BSPNode(0, 0, args.width, args.height))
    /\ todo' = <<1>>
    /\ pc' = "split_node"
    /\ UNCHANGED <<args, rooms, panicked>>
    /\ UNCHANGED <<workers, walk, gamevars>>

\* the test of split_node that stops the recursion, without the depth
CannotSplitAnyDepth(node, min_size, current_depth) ==
    node.width < min_size * 2 /\ node.height < min_size * 2

\* the tests of split_node that stop the recursion: current_depth >= max_depth,
\* or !can_split_horizontally && !can_split_vertically
CannotSplit(node, min_size, current_depth) ==
    \/ current_depth >= MaxDepth
    \/ (node.width < min_size * 2 /\ node.height < min_size * 2)

\* a gen_range that reads the end of the range as inclusive
SplitsToTheEnd(extent, min_size) == min_size .. extent - min_size + 1

\* the values of gen_range(min_size..(extent - min_size + 1)) in split_node
Splits(extent, min_size) == min_size .. extent - min_size

\* MapGenerator::split_node on the next node of the recursion
SplitNode ==
    /\ pc = "split_node" /\ todo # << >>
    /\ LET id == Head(todo)
           node == bsp_root[id]
           min_size == args.min_room_size
           can_split_horizontally == node.width >= min_size * 2
           can_split_vertically == node.height >= min_size * 2
       IN  IF CannotSplit(node, min_size, Depth(id))
           THEN /\ todo' = Tail(todo)
                /\ UNCHANGED bsp_root
           ELSE \E split_vertically \in
                       IF can_split_horizontally /\ can_split_vertically
                       THEN BOOLEAN ELSE {can_split_horizontally} :
                   \E split \in Splits(IF split_vertically THEN node.width ELSE node.height,
                                        min_size) :
                      /\ bsp_root' =
                            IF split_vertically
                            THEN bsp_root
                                 @@ (Left(id) :> BSPNode(node.x, node.y, split, node.height))
                                 @@ (Right(id) :> BSPNode(node.x + split, node.y,
                                                          node.width - split, node.height))
                            ELSE bsp_root
                                 @@ (Left(id) :> BSPNode(node.x, node.y, node.width, split))
                                 @@ (Right(id) :> BSPNode(node.x, node.y + split,
                                                          node.width, node.height - split))
                      /\ todo' = <<Left(id), Right(id)>> \o Tail(todo)
    /\ UNCHANGED <<tiles, args, rooms, pc, panicked>>
    /\ UNCHANGED <<workers, walk, gamevars>>

\* MapGenerator::create_rooms_in_bsp, entry
CreateRoomsInBsp ==
    /\ pc = "split_node" /\ todo = << >>
    /\ todo' = Leaves(bsp_root, 1)
    /\ pc' = "collect_rooms_in_node"
    /\ UNCHANGED <<tiles, args, bsp_root, rooms, panicked>>
    /\ UNCHANGED <<workers, walk, gamevars>>

\* a coordinate far outside every grid: it stands for the draws from a range
\* whose upper end has wrapped around to a value near 2^64
FarAway == 1000

\* the range node.x + padding ..= node.x + node.width - room_width - padding of
\* collect_rooms_in_node: its draws, and node.x + padding when it is empty. An
\* upper end below zero has wrapped around, so the range is not empty.
RoomOrigins(origin, extent, room_extent) ==
    LET lo == origin + Padding
        hi == origin + extent - room_extent - Padding
    IN  IF hi < 0 THEN (lo .. lo + MaxDraws - 1) \cup {FarAway}
        ELSE IF lo > hi THEN {lo}
        ELSE lo .. hi

\* MapGenerator::collect_rooms_in_node on the next leaf
CollectRoomsInNode ==
    /\ pc = "collect_rooms_in_node" /\ todo # << >>
    /\ LET id == Head(todo)
           node == bsp_root[id]
           min_room_size == args.min_room_size
           max_room_size == args.max_room_size
           max_room_width == IF node.width < Padding * 2 THEN max_room_size
                             ELSE Min(node.width - Padding * 2, max_room_size)
           max_room_height == IF node.height < Padding * 2 THEN max_room_size
                              ELSE Min(node.height - Padding * 2, max_room_size)
       IN  IF /\ args.overflow_checks
              /\ (node.width < Padding * 2 \/ node.height < Padding * 2)
           THEN /\ panicked' = TRUE
                /\ pc' = "panicked"
                /\ UNCHANGED <<bsp_root, rooms, todo>>
           ELSE IF max_room_width < min_room_size \/ max_room_height < min_room_size
           THEN /\ todo' = Tail(todo)
                /\ UNCHANGED <<bsp_root, rooms, pc, panicked>>
           ELSE \E room_width \in min_room_size .. max_room_width,
                   room_height \in min_room_size .. max_room_height :
                   \E room_x \in RoomOrigins(node.x, node.width, room_width),
                      room_y \in RoomOrigins(node.y, node.height, room_height) :
                      LET room == RoomNew(Point(room_x, room_y), room_width, room_height)
                      IN  /\ bsp_root' = [bsp_root EXCEPT ![id].room = room]
                          /\ rooms' = Append(rooms, room)
                          /\ todo' = Tail(todo)
                          /\ UNCHANGED <<pc, panicked>>
    /\ UNCHANGED <<tiles, args>>
    /\ UNCHANGED <<workers, walk, gamevars>>

\* a worker about to make the call `at` of Room::populate or Room::place_doors;
\* num_entrances and entrances are the locals of determine_room_type and
\* place_doors, potential_positions the local of place_secret
Worker(at) ==
    [at |-> at, guard |-> "none", num_entrances |-> << >>, potential_positions |-> {},
     entrances |-> {}]

\* the guard of the RwLock that the part of populate or place_doors starting at
\* the call `at` takes: tiles.read() or tiles.write()
Guard(at) ==
    CASE at \in {"fill_with_floor", "surround_with_walls", "determine_room_type",
                 "place_secret", "place_doors"} -> "read"
      [] at = "returned" -> "none"
      [] OTHER -> "write"

\* MapGenerator::populate_all_rooms, entry: par_iter_mut hands every room to a worker
PopulateAllRooms ==
    /\ pc = "collect_rooms_in_node" /\ todo = << >>
    /\ workers' = [i \in 1 .. Len(rooms) |-> Worker("fill_with_floor")]
    /\ pc' = "populate"
    /\ UNCHANGED <<tiles, args, bsp_root, rooms, todo, panicked>>
    /\ UNCHANGED <<walk, gamevars>>

\* RwLock: a write guard is granted when no guard is out, a read guard when no
\* write guard is out
Granted(guard) ==
    IF guard = "write" THEN \A j \in DOMAIN workers : workers[j].guard = "none"
    ELSE \A j \in DOMAIN workers : workers[j].guard # "write"

\* tiles.read().unwrap() or tiles.write().unwrap() of the worker of room i: it
\* blocks until the lock grants the guard
RoomLocks(i) ==
    /\ pc \in {"populate", "place_doors"}
    /\ workers[i].guard # Guard(workers[i].at)
    /\ Granted(Guard(workers[i].at))
    /\ workers' = [workers EXCEPT ![i].guard = Guard(workers[i].at)]
    /\ UNCHANGED <<tiles, args, bsp_root, rooms, todo, pc, panicked>>
    /\ UNCHANGED <<walk, gamevars>>

\* the worker of room i holds the guard of the call `at` and is about to go on
At(i, at) ==
    /\ pc \in {"populate", "place_doors"}
    /\ workers[i].at = at
    /\ workers[i].guard = Guard(at)

\* Room::fill_with_floor and Room::surround_with_walls of room i up to
\* drop(tiles_read): the size of the grid is read
RoomReadsSize(i) ==
    /\ At(i, "fill_with_floor") \/ At(i, "surround_with_walls")
    /\ \E at \in NextCalls(workers[i].at, rooms[i].room_type) :
          workers' = [workers EXCEPT ![i].at = at, ![i].guard = "none"]
    /\ UNCHANGED <<tiles, args, bsp_root, rooms, todo, pc, panicked>>
    /\ UNCHANGED <<walk, gamevars>>

\* an unchecked index outside the grid: the worker panics and the panic leaves
\* for_each
WorkerPanics ==
    /\ panicked' = TRUE
    /\ pc' = "panicked"
    /\ UNCHANGED <<tiles, workers>>

\* the worker of room i makes the call it is at, whose outcome is one of
\* outcomes, gives its guard back and goes on to one of the calls that can
\* follow it
Writes(i, outcomes) ==
    \E o \in outcomes :
        IF o.ok
        THEN /\ tiles' = o.tiles
             /\ \E at \in NextCalls(workers[i].at, rooms[i].room_type) :
                   workers' = [workers EXCEPT ![i].at = at, ![i].guard = "none"]
             /\ UNCHANGED <<pc, panicked>>
        ELSE WorkerPanics

\* Room::fill_with_floor of room i from tiles_arc.write() on
RoomFillWithFloor(i) ==
    /\ At(i, "fill_with_floor_write")
    /\ Writes(i, {Ok(FillWithFloor(tiles, rooms[i]))})
    /\ UNCHANGED <<args, bsp_root, rooms, todo>>
    /\ UNCHANGED <<walk, gamevars>>

\* Room::surround_with_walls of room i from tiles_arc.write() on
RoomSurroundWithWalls(i) ==
    /\ At(i, "surround_with_walls_write")
    /\ Writes(i, {Ok(SurroundWithWalls(tiles, rooms[i]))})
    /\ UNCHANGED <<args, bsp_root, rooms, todo>>
    /\ UNCHANGED <<walk, gamevars>>

\* Room::place_columns of room i
RoomPlaceColumns(i) ==
    /\ At(i, "place_columns")
    /\ Writes(i, PlaceColumns(tiles, rooms[i]))
    /\ UNCHANGED <<args, bsp_root, rooms, todo>>
    /\ UNCHANGED <<walk, gamevars>>

\* Room::determine_room_type of room i, and the match and coin flips of populate
\* that choose the call after it
RoomDetermineRoomType(i) ==
    /\ At(i, "determine_room_type")
    /\ \E room_type \in DetermineRoomType(tiles, rooms[i]) :
          /\ rooms' = [rooms EXCEPT ![i].room_type = room_type]
          /\ \E at \in NextCalls("determine_room_type", room_type) :
                workers' = [workers EXCEPT
                               ![i].at = at,
                               ![i].guard = "none",
                               ![i].num_entrances =
                                   <<Cardinality(FindRoomEntrances(tiles, rooms[i]))>>]
    /\ UNCHANGED <<tiles, args, bsp_root, todo, pc, panicked>>
    /\ UNCHANGED <<walk, gamevars>>

\* Room::place_obelisk of room i
RoomPlaceObelisk(i) ==
    /\ At(i, "place_obelisk")
    /\ Writes(i, PlaceObelisk(tiles, rooms[i]))
    /\ UNCHANGED <<args, bsp_root, rooms, todo>>
    /\ UNCHANGED <<walk, gamevars>>

\* Room::place_secret of room i up to drop(tiles_read)
RoomPotentialPositions(i) ==
    /\ At(i, "place_secret")
    /\ LET scan == PotentialPositions(tiles, rooms[i])
       IN  IF scan.ok
           THEN /\ workers' = [workers EXCEPT
                                  ![i].at = "place_secret_write",
                                  ![i].guard = "none",
                                  ![i].potential_positions = scan.positions]
                /\ UNCHANGED <<tiles, pc, panicked>>
           ELSE WorkerPanics
    /\ UNCHANGED <<args, bsp_root, rooms, todo>>
    /\ UNCHANGED <<walk, gamevars>>

\* Room::place_secret of room i from tiles.write() on
RoomPlaceSecret(i) ==
    /\ At(i, "place_secret_write")
    /\ Writes(i, PlaceSecret(tiles, rooms[i], rooms[i].room_type = "Secret",
                             workers[i].potential_positions))
    /\ UNCHANGED <<args, bsp_root, rooms, todo>>
    /\ UNCHANGED <<walk, gamevars>>

\* Room::place_mobs of room i
RoomPlaceMobs(i) ==
    /\ At(i, "place_mobs")
    /\ Writes(i, PlaceMobs(tiles, rooms[i]))
    /\ UNCHANGED <<args, bsp_root, rooms, todo>>
    /\ UNCHANGED <<walk, gamevars>>

\* Room::place_brute of room i
RoomPlaceBrute(i) ==
    /\ At(i, "place_brute")
    /\ Writes(i, PlaceBrute(tiles, rooms[i]))
    /\ UNCHANGED <<args, bsp_root, rooms, todo>>
    /\ UNCHANGED <<walk, gamevars>>

\* Room::place_doors of room i up to the return of find_room_entrances
RoomFindRoomEntrances(i) ==
    /\ At(i, "place_doors")
    /\ workers' = [workers EXCEPT
                      ![i].at = "place_doors_write",
                      ![i].guard = "none",
                      ![i].entrances = FindRoomEntrances(tiles, rooms[i])]
    /\ UNCHANGED <<tiles, args, bsp_root, rooms, todo, pc, panicked>>
    /\ UNCHANGED <<walk, gamevars>>

\* Room::place_doors of room i from tiles.write() on
RoomPlaceDoors(i) ==
    /\ At(i, "place_doors_write")
    /\ Writes(i, {Ok(t) : t \in PlaceDoors(tiles, workers[i].entrances)})
    /\ UNCHANGED <<args, bsp_root, rooms, todo>>
    /\ UNCHANGED <<walk, gamevars>>

\* for_each returns when every worker has
AllReturned == \A i \in DOMAIN workers : workers[i].at = "returned"

\* MapGenerator::connect_rooms_bsp, entry
ConnectRoomsBsp ==
    /\ pc = "populate" /\ AllReturned
    /\ todo' = ConnectOrder(bsp_root, 1)
    /\ pc' = "connect_rooms_bsp"
    /\ UNCHANGED <<tiles, args, bsp_root, rooms, panicked>>
    /\ UNCHANGED <<workers, walk, gamevars>>

\* MapGenerator::drunken_walk_corridor between the rooms of the next node, entry:
\* current = start and the initial direction
DrunkenWalkCorridor ==
    /\ pc = "connect_rooms_bsp" /\ todo # << >>
    /\ \E direction \in {"x", "y"} :
          walk' = [current |-> Center(GetRoomInSubtree(bsp_root, Left(Head(todo)))),
                   direction |-> direction,
                   end |-> Center(GetRoomInSubtree(bsp_root, Right(Head(todo))))]
    /\ pc' = "drunken_walk_corridor"
    /\ UNCHANGED <<tiles, args, bsp_root, rooms, todo, panicked>>
    /\ UNCHANGED <<workers, gamevars>>

\* MapGenerator::drunken_walk_corridor, the body of the loop after the call of
\* carve_corridor: turn when the direction is used up or on rng.gen_bool, then
\* move one cell in the direction, clamped to the grid
WalkIterations(w, width, height) ==
    LET current == w.current
        dx == w.end.x - current.x
        dy == w.end.y - current.y
        at_end_in_direction == IF w.direction = "x" THEN dx = 0 ELSE dy = 0
        turned == IF w.direction = "x" THEN "y" ELSE "x"
        Signum(n) == IF n > 0 THEN 1 ELSE -1
    IN  {[w EXCEPT
            !.direction = direction,
            !.current =
                IF direction = "x"
                THEN (IF dx = 0 THEN current
                      ELSE Point(Clamp(current.x + Signum(dx), 0, width - 1), current.y))
                ELSE (IF dy = 0 THEN current
                      ELSE Point(current.x, Clamp(current.y + Signum(dy), 0, height - 1)))] :
            direction \in IF at_end_in_direction THEN {turned} ELSE {w.direction, turned}}

\* MapGenerator::drunken_walk_corridor, one iteration of the loop
DrunkenWalkStep ==
    /\ pc = "drunken_walk_corridor" /\ walk.current # walk.end
    /\ tiles' = CarveCorridor(tiles, {walk.current})
    /\ walk' \in WalkIterations(walk, args.width, args.height)
    /\ UNCHANGED <<args, bsp_root, rooms, todo, pc, panicked>>
    /\ UNCHANGED <<workers, gamevars>>

\* MapGenerator::drunken_walk_corridor returns: current == end
DrunkenWalkReturns ==
    /\ pc = "drunken_walk_corridor" /\ walk.current = walk.end
    /\ walk' = None
    /\ todo' = Tail(todo)
    /\ pc' = "connect_rooms_bsp"
    /\ UNCHANGED <<tiles, args, bsp_root, rooms, panicked>>
    /\ UNCHANGED <<workers, gamevars>>

\* MapGenerator::place_all_room_doors, entry: par_iter hands every room to a worker
PlaceAllRoomDoors ==
    /\ pc = "connect_rooms_bsp" /\ todo = << >>
    /\ workers' = [i \in 1 .. Len(rooms) |-> [workers[i] EXCEPT !.at = "place_doors"]]
    /\ pc' = "place_doors"
    /\ UNCHANGED <<tiles, args, bsp_root, rooms, todo, panicked>>
    /\ UNCHANGED <<walk, gamevars>>

\* MapGenerator::generate returns
GenerateReturns ==
    /\ pc = "place_doors" /\ AllReturned
    /\ pc' = "done"
    /\ UNCHANGED <<tiles, args, bsp_root, rooms, todo, panicked>>
    /\ UNCHANGED <<workers, walk, gamevars>>

NextGen ==
    \/ BuildBspTree
    \/ SplitNode
    \/ CreateRoomsInBsp
    \/ CollectRoomsInNode
    \/ PopulateAllRooms
    \/ \E i \in DOMAIN workers : RoomLocks(i)
    \/ \E i \in DOMAIN workers : RoomReadsSize(i)
    \/ \E i \in DOMAIN workers : RoomFillWithFloor(i)
    \/ \E i \in DOMAIN workers : RoomSurroundWithWalls(i)
    \/ \E i \in DOMAIN workers : RoomPlaceColumns(i)
    \/ \E i \in DOMAIN workers : RoomDetermineRoomType(i)
    \/ \E i \in DOMAIN workers : RoomPlaceObelisk(i)
    \/ \E i \in DOMAIN workers : RoomPotentialPositions(i)
    \/ \E i \in DOMAIN workers : RoomPlaceSecret(i)
    \/ \E i \in DOMAIN workers : RoomPlaceMobs(i)
    \/ \E i \in DOMAIN workers : RoomPlaceBrute(i)
    \/ \E i \in DOMAIN workers : RoomFindRoomEntrances(i)
    \/ \E i \in DOMAIN workers : RoomPlaceDoors(i)
    \/ ConnectRoomsBsp
    \/ DrunkenWalkCorridor
    \/ DrunkenWalkStep
    \/ DrunkenWalkReturns
    \/ PlaceAllRoomDoors
    \/ GenerateReturns

SpecGen == InitGen /\ [][NextGen]_vars

\* generate on the input with small leaves
SpecSmall == InitSmall /\ [][NextGen]_vars

\* runs of generate up to its call of connect_rooms_bsp, each with two rooms:
\* MapGenerator::new(18, 9).generate(5, 5) split at x = 9,
\* MapGenerator::new(22, 11).generate(6, 6) split at x = 11, where the leaves
\* leave the rooms a choice of rows, and MapGenerator::new(10, 7).generate(3, 3)
\* without overflow checks, whose leaves (4,4,3x3) and (7,4,3x3) are too small
\* and yield rooms that reach beyond the grid
CorridorRuns ==
    {[args |-> [width |-> 18, height |-> 9, min_room_size |-> 5, max_room_size |-> 5,
                overflow_checks |-> overflow_checks],
      tree |-> (1 :> BSPNode(0, 0, 18, 9))
               @@ (2 :> BSPNode(0, 0, 9, 9)) @@ (3 :> BSPNode(9, 0, 9, 9)),
      left |-> 2, right |-> 3,
      rooms |-> <<RoomNew(Point(2, 2), 5, 5), RoomNew(Point(11, 2), 5, 5)>>] :
        overflow_checks \in BOOLEAN}
    \cup
    {[args |-> [width |-> 22, height |-> 11, min_room_size |-> 6, max_room_size |-> 6,
                overflow_checks |-> TRUE],
      tree |-> (1 :> BSPNode(0, 0, 22, 11))
               @@ (2 :> BSPNode(0, 0, 11, 11)) @@ (3 :> BSPNode(11, 0, 11, 11)),
      left |-> 2, right |-> 3,
      rooms |-> <<RoomNew(Point(2, y1), 6, 6), RoomNew(Point(13, y2), 6, 6)>>] :
        y1 \in 2 .. 3, y2 \in 2 .. 3}
    \cup
    {[args |-> [width |-> 10, height |-> 7, min_room_size |-> 3, max_room_size |-> 3,
                overflow_checks |-> FALSE],
      tree |-> (1 :> BSPNode(0, 0, 10, 7))
               @@ (2 :> BSPNode(0, 0, 10, 4)) @@ (3 :> BSPNode(0, 4, 10, 3))
               @@ (4 :> BSPNode(0, 0, 5, 4)) @@ (5 :> BSPNode(5, 0, 5, 4))
               @@ (6 :> BSPNode(0, 4, 4, 3)) @@ (7 :> BSPNode(4, 4, 6, 3))
               @@ (14 :> BSPNode(4, 4, 3, 3)) @@ (15 :> BSPNode(7, 4, 3, 3)),
      left |-> 14, right |-> 15,
      rooms |-> <<RoomNew(Point(6, 6), 3, 3), RoomNew(Point(9, 6), 3, 3)>>]}

\* generate at its call of connect_rooms_bsp in one of the runs: the rooms have
\* their floor and walls, and either nothing else, or what place_columns left
\* in the first room and the obelisk of place_obelisk in the second
InitCorridor ==
    /\ \E run \in CorridorRuns :
          LET left_room == run.rooms[1]
              right_room == run.rooms[2]
              walls == SurroundWithWalls(FillWithFloor(
                           SurroundWithWalls(FillWithFloor(
                               EmptyGrid(run.args.width, run.args.height), left_room),
                               left_room),
                           right_room), right_room)
          IN  /\ args = run.args
              /\ bsp_root = [id \in DOMAIN run.tree |->
                                IF id = run.left
                                THEN [run.tree[id] EXCEPT !.room = left_room]
                                ELSE IF id = run.right
                                THEN [run.tree[id] EXCEPT !.room = right_room]
                                ELSE run.tree[id]]
              /\ todo = ConnectOrder(bsp_root, 1)
              /\ \/ /\ tiles = walls
                    /\ rooms = run.rooms
                 \/ \E columns \in PlaceColumns(walls, left_room) :
                       /\ columns.ok
                       /\ \E obelisk \in PlaceObelisk(columns.tiles, right_room) :
                             /\ obelisk.ok
                             /\ tiles = obelisk.tiles
                       /\ rooms = <<left_room, [right_room EXCEPT !.room_type = "Obelisk"]>>
    /\ workers = [i \in 1 .. 2 |-> [Worker("returned") EXCEPT !.num_entrances = <<0>>]]
    /\ walk = None
    /\ pc = "connect_rooms_bsp"
    /\ panicked = FALSE
    /\ visible_tiles = {}
    /\ player = PlayerNew
    /\ player_position = Point(0, 0)
    /\ previous_tile = TileFloor(FALSE, FALSE)
    /\ turns = 0
    /\ log_messages = << >>
    /\ call = None
    /\ ncalls = 0
    /\ result = None

\* connect_rooms_bsp alone
NextCorridor ==
    \/ DrunkenWalkCorridor
    \/ DrunkenWalkStep
    \/ DrunkenWalkReturns

SpecCorridor == InitCorridor /\ [][NextCorridor]_vars

\* connect_rooms_bsp runs on: the thread of generate() is always scheduled
SpecCorridorRuns == SpecCorridor /\ WF_vars(NextCorridor)

\* generate at its call of populate_all_rooms in the run on the 18 x 9 map with
\* overflow checks and in the run on the 10 x 7 map without: the grid is empty
\* and the rooms are in the leaves
InitRooms ==
    /\ \E run \in {r \in CorridorRuns : r.args.height < 11 /\ r.args.overflow_checks = (r.args.width = 18)} :
          /\ args = run.args
          /\ tiles = EmptyGrid(run.args.width, run.args.height)
          /\ rooms = run.rooms
          /\ bsp_root = [id \in DOMAIN run.tree |->
                            IF id = run.left
                            THEN [run.tree[id] EXCEPT !.room = run.rooms[1]]
                            ELSE IF id = run.right
                            THEN [run.tree[id] EXCEPT !.room = run.rooms[2]]
                            ELSE run.tree[id]]
    /\ todo = << >>
    /\ workers = << >>
    /\ walk = None
    /\ pc = "collect_rooms_in_node"
    /\ panicked = FALSE
    /\ visible_tiles = {}
    /\ player = PlayerNew
    /\ player_position = Point(0, 0)
    /\ previous_tile = TileFloor(FALSE, FALSE)
    /\ turns = 0
    /\ log_messages = << >>
    /\ call = None
    /\ ncalls = 0
    /\ result = None

\* generate from populate_all_rooms on
NextRooms ==
    \/ PopulateAllRooms
    \/ \E i \in DOMAIN workers : RoomLocks(i)
    \/ \E i \in DOMAIN workers : RoomReadsSize(i)
    \/ \E i \in DOMAIN workers : RoomFillWithFloor(i)
    \/ \E i \in DOMAIN workers : RoomSurroundWithWalls(i)
    \/ \E i \in DOMAIN workers : RoomPlaceColumns(i)
    \/ \E i \in DOMAIN workers : RoomDetermineRoomType(i)
    \/ \E i \in DOMAIN workers : RoomPlaceObelisk(i)
    \/ \E i \in DOMAIN workers : RoomPotentialPositions(i)
    \/ \E i \in DOMAIN workers : RoomPlaceSecret(i)
    \/ \E i \in DOMAIN workers : RoomPlaceMobs(i)
    \/ \E i \in DOMAIN workers : RoomPlaceBrute(i)
    \/ \E i \in DOMAIN workers : RoomFindRoomEntrances(i)
    \/ \E i \in DOMAIN workers : RoomPlaceDoors(i)
    \/ ConnectRoomsBsp
    \/ DrunkenWalkCorridor
    \/ DrunkenWalkStep
    \/ DrunkenWalkReturns
    \/ PlaceAllRoomDoors
    \/ GenerateReturns

\* the threads of the pool and the thread of generate() are always scheduled
SpecRoomsRun == InitRooms /\ [][NextRooms]_vars /\ WF_vars(NextRooms)

\* build_bsp_tree and create_rooms_in_bsp alone
NextBsp ==
    \/ BuildBspTree
    \/ SplitNode
    \/ CreateRoomsInBsp
    \/ CollectRoomsInNode

SpecBsp == InitBsp /\ [][NextBsp]_vars

\* a map that can be split more than max_depth times in a row
DeepInputs ==
    {[width |-> 7, height |-> 1, min_room_size |-> 1, max_room_size |-> 1]}

SpecDeep == InitGenerator(DeepInputs) /\ [][NextBsp]_vars

----------------------------------------------------------------------------
(* Claims about the map and the turn loop.                                 *)

\* the call just made passed a point outside the grid
CallOutOfBounds ==
    /\ call # None
    /\ (call.position.x >= Width(tiles) \/ call.position.y >= Height(tiles))

\* C1: for every point outside the grid, get_tile returns Tile::Empty without
\* panicking and set_tile returns without panicking (and changes no cell)
C1_BoundsSafety ==
    CallOutOfBounds =>
        /\ ~panicked
        /\ call.op = "get_tile" => result = TileEmpty


\* the cells has_line_of_sight steps through from (x0, y0) before it reaches (x1, y1)
RECURSIVE BresenhamLoop(_, _, _, _, _, _, _, _, _)
BresenhamLoop(x0, y0, x1, y1, dx, dy, sx, sy, err) ==
    IF x0 = x1 /\ y0 = y1 THEN {}
    ELSE LET e2 == 2 * err
             nx == IF e2 >= dy THEN x0 + sx ELSE x0
             ny == IF e2 <= dx THEN y0 + sy ELSE y0
             nerr == err + (IF e2 >= dy THEN dy ELSE 0) + (IF e2 <= dx THEN dx ELSE 0)
         IN  {Point(x0, y0)} \cup BresenhamLoop(nx, ny, x1, y1, dx, dy, sx, sy, nerr)

\* the Bresenham line from p to q without q itself
BresenhamLine(p, q) ==
    BresenhamLoop(p.x, p.y, q.x, q.y, Abs(q.x - p.x), -Abs(q.y - p.y),
                  IF p.x < q.x THEN 1 ELSE -1, IF p.y < q.y THEN 1 ELSE -1,
                  Abs(q.x - p.x) - Abs(q.y - p.y))

\* no cell of the line from p to q, q left out, is opaque
LineIsClear(t, p, q, by_obelisk, is_player_cursed) ==
    \A c \in BresenhamLine(p, q) : ~IsOpaque(t, c, by_obelisk, is_player_cursed)

SquaredDistance(p, q) == (p.x - q.x) * (p.x - q.x) + (p.y - q.y) * (p.y - q.y)

\* the points of the grid within the radius of pov and in its line of sight
SightSet(t, pov, radius, is_player_cursed) ==
    {q \in GridPoints(t) :
        /\ SquaredDistance(pov, q) <= radius * radius
        /\ LineIsClear(t, pov, q, FALSE, is_player_cursed)}

\* q lies in the curse area of some obelisk with curse: true
InCurseArea(t, q) ==
    \E o \in CursingObelisks(t) :
        /\ SquaredDistance(o, q) <= GetTile(t, o).fov * GetTile(t, o).fov
        /\ LineIsClear(t, q, o, TRUE, FALSE)

\* C2: when check_effects runs, a player standing in the curse area of an obelisk
\* still has is_cursed = true on its tile (update_fov has not changed it), so the
\* curse-effects branch is the one taken
C2_CursedWhenEffectsRun ==
    (pc = "check_effects" /\ InCurseArea(tiles, player_position))
        => IsPlayerCursed(tiles, player_position)

\* C3: update_fov called with a Player{is_cursed: true} at pov computes the
\* visible set with the cursed-observer predicate, whatever the previous visible set
C3_CursedObserverPredicate ==
    [][(pc = "update_fov" /\ IsPlayerCursed(tiles, player_position))
          => visible_tiles' =
                SightSet(tiles, player_position,
                         GetPlayerFovRadius(tiles, player_position, player), TRUE)]_vars

\* the tile of p carries a visible flag and the flag is set
FlagSet(t, p) == GetTile(t, p).kind \in VisibleKinds /\ GetTile(t, p).visible

\* the tile of p carries a visible flag and the flag is clear
FlagClear(t, p) == GetTile(t, p).kind \in VisibleKinds /\ ~GetTile(t, p).visible

\* C4: between two player actions visible_tiles is exactly the set of points whose
\* tile has visible = true: no tile that carries the flag has it clear inside
\* visible_tiles, or set outside
C4_VisibleSetMatchesFlags ==
    pc = "idle" =>
        \A p \in GridPoints(tiles) :
            /\ p \in visible_tiles => ~FlagClear(tiles, p)
            /\ p \notin visible_tiles => ~FlagSet(tiles, p)

\* C5: after update_fov(p, r) the visible set is the set of grid points within
\* squared distance r*r of p whose Bresenham line from p has no opaque cell but
\* the point itself, under the predicate of the observer's cursed status
C5_VisibleSetIsSightSet ==
    [][pc = "update_fov"
          => visible_tiles' =
                SightSet(tiles, player_position,
                         GetPlayerFovRadius(tiles, player_position, player),
                         IsPlayerCursed(tiles, player_position))]_vars

\* the visible set is the sight set under the predicate update_fov selects, which
\* it reads from the tile at pov after the clearing pass
VisibleSetAsSelected ==
    [][pc = "update_fov"
          => visible_tiles' =
                SightSet(tiles, player_position,
                         GetPlayerFovRadius(tiles, player_position, player),
                         FovObserverCursed(ClearVisibleTiles(tiles, visible_tiles),
                                           player_position))]_vars

C7_EveryActionTicks == [][pc = "idle" => pc' = "tick"]_vars

\* C7 amended: a player action starts a tick only when it takes effect (the
\* player moves, or a door or a visible secret is next to the player on interact);
\* a refused one leaves the grid, the position and the turn counter alone; a tick
\* adds one to the turn counter and calls apply_obelisk_curses, update_fov and
\* check_effects in that order
C7_TickPerEffectiveAction ==
    [][/\ (pc = "idle" /\ pc' = "idle") =>
              (turns' = turns /\ tiles' = tiles /\ player_position' = player_position)
       /\ (pc = "idle" /\ pc' # "idle") =>
              /\ pc' = "tick" /\ turns' = turns
              /\ \/ player_position' # player_position
                 \/ \E i \in 1 .. Len(DIRECTIONS) :
                        IsInteractable(tiles, InteractPosition(tiles, player_position, i))
       /\ pc = "tick" => (pc' = "apply_obelisk_curses" /\ turns' = turns + 1)
       /\ pc = "apply_obelisk_curses" => (pc' = "update_fov" /\ turns' = turns)
       /\ pc = "update_fov" => (pc' = "check_effects" /\ turns' = turns)
       /\ pc = "check_effects" => (pc' = "idle" /\ turns' = turns)]_vars

\* C7 witness: a move was refused after a completed tick, and no tick is running
C7_Witness ==
    /\ pc = "idle"
    /\ turns >= 2
    /\ log_messages # << >>
    /\ log_messages[Len(log_messages)].message = "You can't walk there."

\* C12: a second apply_obelisk_curses right after the first, with no tile changed
\* in between, leaves the grid as the first call left it: the same cursed Floor
\* cells and the same is_cursed flag of the Player
C12_CursesIdempotent ==
    pc = "update_fov" => ApplyObeliskCurses(tiles) = tiles

\* C12 witness: apply_obelisk_curses has just cursed the Player and several floors
C12_Witness ==
    /\ pc = "update_fov"
    /\ IsPlayerCursed(tiles, player_position)
    /\ Cardinality({p \in GridPoints(tiles) :
                        GetTile(tiles, p).kind = "Floor" /\ GetTile(tiles, p).cursed}) >= 2

\* the targets of the observer: the other grid points within the radius
Targets(t, pov, radius) ==
    {q \in GridPoints(t) : q # pov /\ SquaredDistance(pov, q) <= radius * radius}

\* the grid and the visible set after set_tile(c, Wall), update_fov(pov, radius),
\* set_tile(c, Floor), in that order
WallThenFloor(t, visible, pov, radius, c) ==
    LET first == UpdateFov(SetTile(t, c, TileWall(FALSE)), visible, pov, radius)
    IN  [first |-> first.visible_tiles,
         tiles |-> SetTile(first.tiles, c, TileFloor(FALSE, FALSE))]

\* C13: with a Wall on an intermediate cell of the Bresenham line from the observer
\* to a target within the radius, update_fov leaves the target out of the visible
\* set; with the Wall replaced by Floor and no other cell of the line opaque for
\* that call, a new update_fov puts the target into the visible set
C13_WallBlocksSight ==
    pc = "update_fov" =>
        LET pov == player_position
            radius == GetPlayerFovRadius(tiles, pov, player)
        IN  \A q \in Targets(tiles, pov, radius) :
                \A c \in BresenhamLine(pov, q) \ {pov} :
                    LET w == WallThenFloor(tiles, visible_tiles, pov, radius, c)
                        is_player_cursed ==
                            FovObserverCursed(ClearVisibleTiles(w.tiles, w.first), pov)
                    IN  /\ q \notin w.first
                        /\ LineIsClear(w.tiles, pov, q, FALSE, is_player_cursed)
                              => q \in UpdateFov(w.tiles, w.first, pov, radius).visible_tiles

\* C13 witness: a target two or more cells away whose line does clear up when the
\* Wall on it is replaced by Floor
C13_Witness ==
    /\ pc = "update_fov"
    /\ turns >= 2
    /\ LET pov == player_position
           radius == GetPlayerFovRadius(tiles, pov, player)
       IN  \E q \in Targets(tiles, pov, radius) :
               \E c \in BresenhamLine(pov, q) \ {pov} :
                   LET w == WallThenFloor(tiles, visible_tiles, pov, radius, c)
                   IN  /\ q \notin w.first
                       /\ q \in UpdateFov(w.tiles, w.first, pov, radius).visible_tiles

BlocksObeliskSightAsClaimed(tile) == tile.kind \in {"Wall", "Door", "Column", "Pit"}

\* the same with the closed doors only
BlocksObeliskSight(tile) ==
    \/ tile.kind \in {"Wall", "Column", "Pit"}
    \/ (tile.kind = "Door" /\ ~tile.open)

\* C15 as stated: a cell has the line of sight of an obelisk exactly when no cell
\* of the Bresenham line from the cell to the obelisk is a Wall, a Door, a Column
\* or a Pit; mobs and secrets on the line do not count
C15_DoorsBlockObeliskSight ==
    \A o \in CursingObelisks(tiles) :
        \A q \in GridPoints(tiles) :
            HasLineOfSight(tiles, q.x, q.y, o.x, o.y, TRUE, FALSE)
                <=> \A c \in BresenhamLine(q, o) :
                        ~BlocksObeliskSightAsClaimed(GetTile(tiles, c))

\* C15 amended: the same with closed doors in place of doors; an open Door does
\* not block the sight of an obelisk
C15_ClosedDoorsBlockObeliskSight ==
    \A o \in CursingObelisks(tiles) :
        \A q \in GridPoints(tiles) :
            HasLineOfSight(tiles, q.x, q.y, o.x, o.y, TRUE, FALSE)
                <=> \A c \in BresenhamLine(q, o) : ~BlocksObeliskSight(GetTile(tiles, c))

\* C15 witness: an open door on the line from a cell to the obelisk, and the cell
\* has the line of sight of the obelisk
C15_Witness ==
    \E o \in CursingObelisks(tiles) :
        \E q \in GridPoints(tiles) :
            /\ HasLineOfSight(tiles, q.x, q.y, o.x, o.y, TRUE, FALSE)
            /\ \E c \in BresenhamLine(q, o) :
                  GetTile(tiles, c).kind = "Door" /\ GetTile(tiles, c).open

\* the obelisks with curse = true whose Bresenham line to pov holds no Wall, closed
\* Door, Column or Pit
ObelisksInSight(t, pov) ==
    {o \in GridPoints(t) :
        /\ GetTile(t, o).kind = "Obelisk" /\ GetTile(t, o).curse
        /\ \A c \in BresenhamLine(o, pov) : ~BlocksObeliskSight(GetTile(t, c))}

\* o comes before p, or is p, in a scan of the rows top to bottom, each row left
\* to right
RowMajorFirst(o, p) == o.y < p.y \/ (o.y = p.y /\ o.x <= p.x)

C19_DeadStaysDead ==
    [][/\ (pc = "idle" /\ pc' = "tick" /\ IsDeadly(tiles, player_position'))
             => IsDead(player')
       /\ IsDead(player) => IsDead(player')]_vars

----------------------------------------------------------------------------
(* Claims about the dungeon generator.                                     *)

\* the cells a 4-connected flood fill over walkable cells reaches from seen
RECURSIVE Flood(_, _)
Flood(t, seen) ==
    LET next == seen \cup {p \in GridPoints(t) :
                              /\ IsWalkable(t, p)
                              /\ \E q \in seen : Abs(p.x - q.x) + Abs(p.y - q.y) = 1}
    IN  IF next = seen THEN seen ELSE Flood(t, next)

\* C8: after generate(), at every BSP node whose two subtrees hold a room, a flood
\* fill over walkable cells from the center of the left representative room
\* reaches the center of the right one
C8_CentersConnected ==
    pc = "done" =>
        \A id \in Elements(ConnectOrder(bsp_root, 1)) :
            Center(GetRoomInSubtree(bsp_root, Right(id))) \in
                Flood(tiles, {Center(GetRoomInSubtree(bsp_root, Left(id)))})

\* C9: the cells of two distinct rooms, walls included, are disjoint
C9_RoomsDisjoint ==
    \A i, j \in 1 .. Len(rooms) :
        i # j => RoomCells(rooms[i]) \cap RoomCells(rooms[j]) = {}

\* the leaf is too small to hold a room of min_room_size inside the padding
LeafTooSmall(node) ==
    \/ node.width - Padding * 2 < args.min_room_size
    \/ node.height - Padding * 2 < args.min_room_size

\* C10: generate never panics, and a leaf too small for a room of min_room_size
\* after padding has no room
C10_SmallLeafHasNoRoom ==
    /\ ~panicked
    /\ pc # "generate" =>
          \A id \in DOMAIN bsp_root :
              LeafTooSmall(bsp_root[id]) => bsp_root[id].room = None

\* the cells whose tile the step changes
Written == {p \in GridPoints(tiles) : GetTile(tiles', p) # GetTile(tiles, p)}

\* C11: a step of the populate() of a room changes only cells of that room's
\* rectangle, walls included, and none that the populate() of another room
\* writes too
C11_RoomsWriteOwnCells ==
    [][pc = "populate" =>
          \A i \in DOMAIN workers :
              workers'[i] # workers[i] =>
                  \A p \in Written :
                      /\ p \in RoomCells(rooms[i])
                      /\ \A j \in DOMAIN workers : j # i => p \notin RoomCells(rooms[j])]_vars

\* the phases of generate in the order of its calls
Phases ==
    <<"generate", "split_node", "collect_rooms_in_node", "populate",
      "connect_rooms_bsp", "place_doors", "done">>

\* the place in Phases of the phase that pc = at belongs to, and 0 for what is
\* no phase; drunken_walk_corridor is called by connect_rooms_bsp
Phase(at) ==
    LET phase == IF at = "drunken_walk_corridor" THEN "connect_rooms_bsp" ELSE at
    IN  IF \E k \in DOMAIN Phases : Phases[k] = phase
        THEN CHOOSE k \in DOMAIN Phases : Phases[k] = phase
        ELSE 0

\* C16: generate goes from each phase to the next one only, a corridor is carved
\* only when every populate() has returned, and there is no Door on the grid
\* before the phase that places the doors
C16_PhasesInOrder ==
    [][/\ Phase(pc') # 0 => Phase(pc') \in {Phase(pc), Phase(pc) + 1}
       /\ (pc = "drunken_walk_corridor" /\ tiles' # tiles) => AllReturned
       /\ (Phase(pc') # 0 /\ Phase(pc') < Phase("place_doors")) =>
             \A p \in GridPoints(tiles') : GetTile(tiles', p).kind # "Door"]_vars

\* C18: in the generated dungeon the weights determine_room_type used for a room
\* are the weights of the number of entrances the room has
C18_WeightsOfFinalEntrances ==
    pc = "done" =>
        \A i \in DOMAIN workers :
            \A room_type \in RoomTypes :
                RoomTypeChance(workers[i].num_entrances[1], room_type) =
                    RoomTypeChance(Cardinality(FindRoomEntrances(tiles, rooms[i])),
                                   room_type)

\* the tiles populate() places inside a room
FeatureKinds == {"Obelisk", "Column", "Secret", "Wither", "Bat", "Brute"}

\* C20: a step of corridor connection leaves every feature tile as it was
C20_FeaturesSurviveCorridors ==
    [][pc = "drunken_walk_corridor" =>
          \A p \in GridPoints(tiles) :
              GetTile(tiles, p).kind \in FeatureKinds =>
                  GetTile(tiles', p) = GetTile(tiles, p)]_vars

\* C21: place_secret changes a cell inside the walls that is a Floor, and one
\* next to a column when the room has a floor cell next to a column
C21_SecretReplacesFloor ==
    [][\A i \in DOMAIN workers :
          (workers[i].at = "place_secret_write" /\ workers'[i] # workers[i]) =>
              \A p \in Written :
                  /\ GetTile(tiles, p).kind = "Floor"
                  /\ p \in InnerCells(rooms[i])
                  /\ PotentialPositions(tiles, rooms[i]).positions # {} =>
                        p \in PotentialPositions(tiles, rooms[i]).positions]_vars

\* the cell carve_corridor(x, y) sets to Floor: (x, y) clamped to the grid
Carved(t, current) ==
    Point(Clamp(current.x, 0, Width(t) - 1), Clamp(current.y, 0, Height(t) - 1))

\* the cells carve_corridor(x, y) looks at besides the carved one: the eight
\* points around (x, y), each clamped to the grid
Around(t, current) ==
    {Point(Clamp(current.x + dx, 0, Width(t) - 1), Clamp(current.y + dy, 0, Height(t) - 1)) :
        dx \in -1 .. 1, dy \in -1 .. 1} \ {Carved(t, current)}

\* C22: an iteration of drunken_walk_corridor, with its one call of
\* carve_corridor, leaves the size of the grid as it was and does not panic;
\* the visited cell, clamped to the grid, is a Floor afterwards, each of the
\* clamped cells around it that was Empty is a Wall, and every other cell of
\* the grid, a cell around it that was not Empty included, is unchanged
C22_CarveFrame ==
    [][(pc = "drunken_walk_corridor" /\ walk.current # walk.end) =>
          LET carved == Carved(tiles, walk.current)
          IN  /\ ~panicked'
              /\ GridPoints(tiles') = GridPoints(tiles)
              /\ GetTile(tiles', carved) = TileFloor(FALSE, FALSE)
              /\ \A p \in GridPoints(tiles) \ {carved} :
                    GetTile(tiles', p) =
                        IF p \in Around(tiles, walk.current) /\ GetTile(tiles, p) = TileEmpty
                        THEN TileWall(FALSE)
                        ELSE GetTile(tiles, p)]_vars

\* C22 witness: the walk from (5, 5) has carved its way out of the left room
\* of the 22 x 11 map: the Column of place_columns at (6, 6) next to the carved
\* cell (6, 5) is still there, and the carved cell (9, 5) between the rooms has
\* a new Wall above it
C22_Witness ==
    /\ pc = "drunken_walk_corridor"
    /\ args.width = 22
    /\ GetTile(tiles, Point(6, 5)).kind = "Floor"
    /\ GetTile(tiles, Point(6, 6)).kind = "Column"
    /\ GetTile(tiles, Point(9, 5)).kind = "Floor"
    /\ GetTile(tiles, Point(9, 4)).kind = "Wall"

\* |a.x - b.x| + |a.y - b.y|
Manhattan(a, b) == Abs(a.x - b.x) + Abs(a.y - b.y)

\* C23: drunken_walk_corridor returns whatever turns it takes: an iteration
\* never takes current further from end and moves it by at most one cell along
\* one axis, an iteration that leaves current where it is is followed by one
\* that brings it a cell nearer to end, and when the walk returns a flood fill
\* over floor cells from the start reaches a cell next to end
C23_WalkTerminates ==
    /\ [][/\ (pc = "drunken_walk_corridor" /\ walk.current # walk.end) =>
                /\ Manhattan(walk'.current, walk.end) <= Manhattan(walk.current, walk.end)
                /\ Manhattan(walk'.current, walk.current) <= 1
                /\ (walk'.current = walk.current) =>
                       \A w \in WalkIterations(walk', args.width, args.height) :
                           Manhattan(w.current, walk.end) < Manhattan(walk.current, walk.end)
          /\ (pc = "drunken_walk_corridor" /\ pc' = "connect_rooms_bsp") =>
                \E p \in Flood(tiles, {Center(GetRoomInSubtree(bsp_root, Left(Head(todo))))}) :
                    /\ GetTile(tiles, p).kind = "Floor"
                    /\ Manhattan(p, walk.end) = 1]_vars
    /\ (pc = "drunken_walk_corridor") ~> (pc = "connect_rooms_bsp")

\* the cells of the rectangle of a BSP node
NodeCells(node) ==
    {Point(x, y) : x \in node.x .. node.x + node.width - 1,
                   y \in node.y .. node.y + node.height - 1}

\* C24: the children of every node that split_node has split are at least
\* min_size long along the split axis, start where the node starts and follow
\* each other, their extents add up to the extent of the node and their other
\* axis is the node's; every cell of the map lies in exactly one leaf
C24_SplitsTile ==
    pc # "generate" =>
        /\ \A id \in DOMAIN bsp_root :
              ~IsLeaf(bsp_root, id) =>
                  LET node == bsp_root[id]
                      left == bsp_root[Left(id)]
                      right == bsp_root[Right(id)]
                  IN  /\ left.x = node.x /\ left.y = node.y
                      /\ \/ /\ left.width >= args.min_room_size
                            /\ right.width >= args.min_room_size
                            /\ left.width + right.width = node.width
                            /\ right.x = node.x + left.width /\ right.y = node.y
                            /\ left.height = node.height /\ right.height = node.height
                         \/ /\ left.height >= args.min_room_size
                            /\ right.height >= args.min_room_size
                            /\ left.height + right.height = node.height
                            /\ right.y = node.y + left.height /\ right.x = node.x
                            /\ left.width = node.width /\ right.width = node.width
                      /\ NodeCells(left) \cap NodeCells(right) = {}
                      /\ NodeCells(left) \cup NodeCells(right) = NodeCells(node)
        /\ \A p \in GridPoints(tiles) :
              Cardinality({id \in Elements(Leaves(bsp_root, 1)) :
                              p \in NodeCells(bsp_root[id])}) = 1

\* C24 witness: split_node has returned from a tree with a split along each axis
C24_Witness ==
    /\ pc \notin {"generate", "split_node"}
    /\ \E id \in DOMAIN bsp_root :
          ~IsLeaf(bsp_root, id) /\ bsp_root[Left(id)].width < bsp_root[id].width
    /\ \E id \in DOMAIN bsp_root :
          ~IsLeaf(bsp_root, id) /\ bsp_root[Left(id)].height < bsp_root[id].height

\* C25: every room of a leaf is between min_room_size and max_room_size wide
\* and high, and its cells, walls included, keep the padding to the four edges
\* of the leaf and so lie inside the grid
C25_RoomsInsideLeaves ==
    pc # "generate" =>
        \A id \in DOMAIN bsp_root :
            LET node == bsp_root[id]
                room == node.room
            IN  room # None =>
                    /\ room.width \in args.min_room_size .. args.max_room_size
                    /\ room.height \in args.min_room_size .. args.max_room_size
                    /\ node.x + Padding <= room.location.x
                    /\ room.location.x + room.width <= node.x + node.width - Padding
                    /\ node.y + Padding <= room.location.y
                    /\ room.location.y + room.height <= node.y + node.height - Padding
                    /\ RoomCells(room) \subseteq NodeCells(node)
                    /\ RoomCells(room) \subseteq GridPoints(tiles)

\* C26: split_node is never called deeper than max_depth, so the tree has at
\* most 2^max_depth = 32 leaves, and there are at most as many rooms as leaves
C26_DepthBounded ==
    pc # "generate" =>
        /\ \A id \in DOMAIN bsp_root : Depth(id) <= MaxDepth
        /\ Len(Leaves(bsp_root, 1)) <= 32
        /\ Len(rooms) <= Len(Leaves(bsp_root, 1))
        /\ Len(rooms) <= 32

\* C26 witness: split_node has returned on a node of depth max_depth that is
\* wide enough to be split, and rooms have been created
C26_Witness ==
    /\ pc = "collect_rooms_in_node"
    /\ \E id \in DOMAIN bsp_root :
          /\ Depth(id) = MaxDepth
          /\ bsp_root[id].width >= args.min_room_size * 2
    /\ rooms # << >>

\* the cell (x, y) is a Wall of the grid t or lies outside it
WallOrEdge(t, x, y) == ~InGrid(t, x, y) \/ GetTile(t, Point(x, y)).kind = "Wall"

\* p lies on the top or bottom side of the perimeter of room between two walls
\* of the grid t, or on the left or right side between two walls
BetweenWalls(t, room, p) ==
    LET left == room.location.x
        right == room.location.x + room.width
        top == room.location.y
        bottom == room.location.y + room.height
    IN  \/ /\ p.y \in {top, bottom} /\ p.x \in left .. right
           /\ WallOrEdge(t, p.x - 1, p.y) /\ WallOrEdge(t, p.x + 1, p.y)
        \/ /\ p.x \in {left, right} /\ p.y \in top .. bottom
           /\ WallOrEdge(t, p.x, p.y - 1) /\ WallOrEdge(t, p.x, p.y + 1)

\* every Door of the grid after the step is closed and lies on the perimeter
\* of a room, and a cell that the step turns into a Door was a Floor between
\* two walls on a side of the perimeter of a room
DoorsOnEntrances ==
    /\ \A p \in GridPoints(tiles') :
          GetTile(tiles', p).kind = "Door" =>
              /\ GetTile(tiles', p) = TileDoor(FALSE, FALSE)
              /\ \E i \in DOMAIN rooms :
                    /\ p \in RoomCells(rooms[i])
                    /\ (\/ p.x \in {rooms[i].location.x, rooms[i].location.x + rooms[i].width}
                        \/ p.y \in {rooms[i].location.y, rooms[i].location.y + rooms[i].height})
    /\ \A p \in Written :
          GetTile(tiles', p).kind = "Door" =>
              /\ GetTile(tiles, p).kind = "Floor"
              /\ \E i \in DOMAIN rooms : BetweenWalls(tiles, rooms[i], p)

\* C27: every Door of the grid is closed and lies on the perimeter of a room,
\* and the step that puts a Door on a cell finds a Floor there, between two
\* walls (or the edge of the grid) on a side of the perimeter of a room
C27_DoorsReplaceEntrances ==
    [][(pc \in {"populate", "place_doors"}) => DoorsOnEntrances]_vars

\* C28: when apply_obelisk_curses leaves the Player tile cursed,
\* get_obelisk_cursing_tile(player_position) returns the tile of an obelisk in
\* sight of the player whose curse area, computed by calculate_curse_area with
\* the fov of that obelisk, contains player_position
C28_CursingObeliskCursesPlayer ==
    (pc = "update_fov" /\ IsPlayerCursed(tiles, player_position)) =>
        LET cursing == GetObeliskCursingTile(tiles, player_position)
            first == {o \in ObelisksInSight(tiles, player_position) :
                         \A p \in ObelisksInSight(tiles, player_position) :
                             RowMajorFirst(o, p)}
        IN  /\ cursing # None
            /\ \A o \in first :
                  /\ cursing = GetTile(tiles, o)
                  /\ player_position \in CalculateCurseArea(tiles, o, cursing.fov)

\* the cells of the grid t that hold a Player tile
PlayerTiles(t) == {p \in GridPoints(t) : GetTile(t, p).kind = "Player"}

\* C29: before and after every step of a game the only Player tile of the grid
\* is the one at player_position; a step that moves the player leaves, on the
\* cell the player stood on, a tile of the variant held in previous_tile, and
\* keeps in previous_tile the variant of the tile the player steps on
C29_OnePlayerTile ==
    [][/\ PlayerTiles(tiles) = {player_position}
       /\ PlayerTiles(tiles') = {player_position'}
       /\ (player_position' # player_position) =>
             /\ GetTile(tiles', player_position).kind = previous_tile.kind
             /\ previous_tile'.kind = GetTile(tiles, player_position').kind]_vars

\* C29 witness: move_player has taken the player from the start of the
\* tutorial map over a floor cell onto the stairs: the start and the cell in
\* between are Floor again and previous_tile holds the Stairs
C29_Witness ==
    /\ pc = "tick"
    /\ previous_tile.kind = "Stairs"
    /\ PlayerTiles(tiles) = {player_position}
    /\ GetTile(tiles, Point(1, 1)).kind = "Floor"
    /\ \A p \in GridPoints(tiles) : GetTile(tiles, p).kind # "Stairs"

\* C30: the workers of populate_all_rooms and place_all_room_doors cannot block
\* each other for ever on the lock of the grid: a worker that has gone on to
\* its next tiles.read() or tiles.write() holds no guard of an earlier one, in
\* particular no read guard when it asks for the write guard, and from any
\* state of the two phases every populate() and place_doors() returns
C30_NoDeadlock ==
    /\ [](pc \in {"populate", "place_doors"} =>
             \A i \in DOMAIN workers :
                 workers[i].guard \in {"none", Guard(workers[i].at)})
    /\ (pc \in {"populate", "place_doors"}) ~> AllReturned

====
